---- MODULE Spec2Model ----
(***************************************************************************)
(* Terminusa Online economic core: the ledger (currency_system.rs), the    *)
(* swap engine (token_swapper.rs) and the settlement adapter               *)
(* (blockchain_integration.rs).                                            *)
(*                                                                         *)
(* Every `.await` on the database pool or on the chain client is one       *)
(* atomic step of the worker that runs the handler; workers interleave at  *)
(* those points.  All handlers issue their statements on `&self.db_pool`,  *)
(* never on the sqlx transaction they open with `db_pool.begin()`, so      *)
(* every statement commits on its own and `tx.rollback()`/`tx.commit()`    *)
(* act on an empty transaction: they change nothing.  register_player     *)
(* (player_account.rs) is the exception: its four INSERTs run on the       *)
(* transaction, and only its create_wallet call runs on the pool.          *)
(*                                                                         *)
(* Spec runs the ledger and swap handlers on two concurrent workers.       *)
(* SpecStatus adds update_transaction_status as a request of its own.      *)
(* SpecChain runs the settlement adapter's handlers, the cluster and two   *)
(* monitor tasks concurrently.  SpecReconcile runs one monitor task twice  *)
(* in succession over a table the handlers filled beforehand.  SpecTax and *)
(* SpecQuote apply calculate_tax and calculate_swap_amount to drawn tables *)
(* and arguments.  SpecRates runs update_exchange_rate and                 *)
(* update_market_rates on two concurrent workers.  SpecWallet runs         *)
(* connect_wallet and verify_wallet on two concurrent workers.             *)
(* SpecAdapter runs the adapter's handlers one call at a time and keeps    *)
(* what each call was given and what it returned.  SpecReward adds         *)
(* reward_currency to the requests of Spec.  SpecRegister runs             *)
(* register_player and create_wallet on two concurrent workers.            *)
(*                                                                         *)
(* Money: a Decimal is a mantissa and a scale (Dec).  Wallet balances and  *)
(* the amounts of the ledger handlers are kept as whole numbers of         *)
(* 1/Hundred units; their inputs are whole units, so the taxes and quotes  *)
(* computed for them fall on that unit.                                    *)
(***************************************************************************)
EXTENDS Integers, Sequences, FiniteSets, TLC

\* Decimal::new(100, 0), the divisor of every percentage
Hundred == 100

\* ------------------------------------------------------------------ bounds
\* operations the ledger workers start in one behaviour
MaxOps == 2
\* storage failures injected in one behaviour
MaxFaults == 1

\* ------------------------------------------------------------- enumerations
Currencies == {"Solana", "Exons", "Crystals"}

Players == {"p1", "p2", "p3"}

\* the concurrent request workers of the ledger and swap services
Procs == {"w1", "w2"}

\* Option::None for a player id ("system") and for a transaction id
System == "system"

NoId == 0

NoHash == "null"

MockSignature == "mock_signature"

VARIABLES
    wallets,            \* game.wallets: player -> [currency -> balance]
    transactions,       \* game.transactions, in insertion order (id = index)
    swap_transactions,  \* game.swap_transactions, in insertion order
    exchange_rates,     \* game.exchange_rates: its rows
    tax_settings,       \* game.tax_settings: currency -> row
    solana_client,      \* CurrencyService.solana_client is Some
    pc,                 \* worker -> position in the handler it runs
    loc,                \* worker -> arguments and locals of that handler
    result,             \* worker -> outcome of the handler that returned
    delta,              \* worker -> net balance change its own writes made
    expected,           \* initial balance + successful credits - debits
    ops,                \* operations started so far
    faults,             \* storage and chain-client failures injected so far
    blockchain_wallets,       \* auth.blockchain_wallets: player -> row
    uuids,              \* values Uuid::new_v4 has returned so far
    now,                \* what NOW() last returned to a wallet statement
    treasury_wallet_keypair,  \* config.treasury_wallet_keypair is Some
    player_tables,      \* the account layer's tables, and game.wallets' row counts
    currency_service,   \* PlayerService.currency_service is Some
    blockchain_transactions,  \* game.blockchain_transactions, in insertion order
    chain,              \* signature -> what the cluster reports for it
    submitted,          \* signatures send_transaction has returned so far
    mpc,                \* monitor task -> position in its pass
    mloc,               \* monitor task -> locals of its pass
    recon,              \* bookkeeping of two passes run in succession
    call                \* the last computation asked for, and what it returned

ledgerVars == <<wallets, transactions, swap_transactions, exchange_rates,
                tax_settings, solana_client, pc, loc, result, delta,
                expected, ops, faults>>

accountVars == <<player_tables, currency_service>>

chainVars == <<blockchain_wallets, uuids, now, treasury_wallet_keypair, accountVars,
               blockchain_transactions, chain, submitted, mpc, mloc, recon>>

vars == <<ledgerVars, chainVars, call>>

\* ------------------------------------------------------- currency catalog
\* game.currencies.is_blockchain (Solana and Exons are blockchain-based)
is_blockchain(c) == c \in {"Solana", "Exons"}

\* --------------------------------------------------------------- Decimal
\* rust_decimal::Decimal as mantissa m and scale e: the value m / 10^e.
\* Every value met here stays far inside Decimal's 96-bit mantissa and its
\* 28 places, where its arithmetic is exact.
Dec(m, e) == [m |-> m, e |-> e]

RECURSIVE Pow10(_)
Pow10(n) == IF n = 0 THEN 1 ELSE 10 * Pow10(n - 1)

\* mantissa of d at scale e >= d.e
AtScale(d, e) == IF d.m = 0 THEN 0 ELSE d.m * Pow10(e - d.e)

MaxScale(a, b) == IF a.e >= b.e THEN a.e ELSE b.e

\* a + b and a - b: at the larger of the two scales
DecAdd(a, b) == Dec(AtScale(a, MaxScale(a, b)) + AtScale(b, MaxScale(a, b)), MaxScale(a, b))

DecSub(a, b) == Dec(AtScale(a, MaxScale(a, b)) - AtScale(b, MaxScale(a, b)), MaxScale(a, b))

\* a * b: the product of the mantissas at the sum of the scales
DecMul(a, b) == Dec(a.m * b.m, a.e + b.e)

\* a / b by long division, one more place until the remainder is zero (the
\* only divisor in this program is Decimal::new(100, 0), which ends in two)
RECURSIVE DecDivDigits(_, _, _)
DecDivDigits(n, d, e) ==
    IF n % d = 0 THEN Dec(n \div d, e) ELSE DecDivDigits(n * 10, d, e + 1)

DecDiv(a, b) == DecDivDigits(a.m * Pow10(b.e), b.m, a.e)

\* comparisons of Decimal values
DecEq(a, b) == AtScale(a, MaxScale(a, b)) = AtScale(b, MaxScale(a, b))

DecLt(a, b) == AtScale(a, MaxScale(a, b)) < AtScale(b, MaxScale(a, b))

DecLe(a, b) == AtScale(a, MaxScale(a, b)) <= AtScale(b, MaxScale(a, b))

DecZero == Dec(0, 0)

\* Decimal::new(100, 0)
DecHundred == Dec(Hundred, 0)

\* the ledger model keeps money as whole numbers of 1/Hundred units
FromHundredths(n) == Dec(n, 2)

InHundredths(d) == (d.m * Hundred) \div Pow10(d.e)

\* ------------------------------------------------------------ tax policy
TaxRow(pct, guild, admin) ==
    [tax_percentage |-> pct, guild_tax_percentage |-> guild, admin_account |-> admin]

\* get_tax_settings: the stored row, or the 0% default with the fallback account
get_tax_settings(ts, c) ==
    IF c \in DOMAIN ts THEN ts[c] ELSE TaxRow(DecZero, DecZero, "adminbb")

\* a tax that leaves the guild percentage out
calculate_tax_base_only(ts, amount, c, is_guild) ==
    DecMul(amount, DecDiv(get_tax_settings(ts, c).tax_percentage, DecHundred))

\* calculate_tax: tax_rate = tax_percentage / 100, plus guild_tax_percentage
\* / 100 for a guild transaction; the tax is amount * tax_rate
calculate_tax_decimal(ts, amount, c, is_guild) ==
    LET s == get_tax_settings(ts, c)
        base == DecDiv(s.tax_percentage, DecHundred)
        tax_rate == IF is_guild
                    THEN DecAdd(base, DecDiv(s.guild_tax_percentage, DecHundred))
                    ELSE base
    IN  DecMul(amount, tax_rate)

\* calculate_tax on the ledger model's amounts
calculate_tax(ts, amount, c, is_guild) ==
    InHundredths(calculate_tax_decimal(ts, FromHundredths(amount), c, is_guild))

\* SELECT id FROM auth.players WHERE username = $1 (usernames are the ids here)
player_by_username(u) == IF u \in Players THEN u ELSE System

\* --------------------------------------------------------------- balances
\* a mis-written SET that subtracts the bound value from the column
update_balance_sub(current, amount) == current - amount

\* the SET that stores the bound value in the column
update_balance_param(current, amount) == amount

\* update_balance: the statement is built by format!(.. SET {} = {} ..) with
\* column_name for both holes, i.e. SET col = col; the bound amount ($2) is
\* not referenced, so the column keeps its value and RETURNING yields it.
update_balance(current, amount) == current

\* --------------------------------------------------------- exchange rates
\* game.exchange_rates is a set of rows
RateRow(from, to, rate, min, max, fee, active) ==
    [from_currency |-> from, to_currency |-> to, rate |-> rate, min_amount |-> min,
     max_amount |-> max, fee_percentage |-> fee, is_active |-> active]

\* ... WHERE from_currency = $1 AND to_currency = $2
rows_for(rates, from, to) ==
    {r \in rates : r.from_currency = from /\ r.to_currency = to}

\* get_exchange_rate: fetch_optional of that SELECT, then the is_active test
get_exchange_rate(rates, from, to) ==
    IF rows_for(rates, from, to) = {} THEN [err |-> "ExchangeRateNotFound"]
    ELSE LET r == CHOOSE x \in rows_for(rates, from, to) : TRUE IN
         IF ~r.is_active THEN [err |-> "ExchangeRateInactive"]
         ELSE [err |-> "none", row |-> r]

\* a quote that does not look at max_amount
calculate_swap_amount_no_max(rates, from, to, from_amount) ==
    IF DecLe(from_amount, DecZero) THEN [err |-> "System"]
    ELSE IF get_exchange_rate(rates, from, to).err # "none"
         THEN get_exchange_rate(rates, from, to)
    ELSE LET r == get_exchange_rate(rates, from, to).row IN
         IF DecLt(from_amount, r.min_amount) THEN [err |-> "AmountTooSmall"]
         ELSE LET fee == DecDiv(DecMul(from_amount, r.fee_percentage), DecHundred)
              IN  [err |-> "none", fee_amount |-> fee, rate |-> r.rate,
                   to_amount |-> DecMul(DecSub(from_amount, fee), r.rate)]

\* a quote whose fee is not taken off before the conversion
calculate_swap_amount_fee_kept(rates, from, to, from_amount) ==
    IF DecLe(from_amount, DecZero) THEN [err |-> "System"]
    ELSE IF get_exchange_rate(rates, from, to).err # "none"
         THEN get_exchange_rate(rates, from, to)
    ELSE LET r == get_exchange_rate(rates, from, to).row IN
         IF DecLt(from_amount, r.min_amount) THEN [err |-> "AmountTooSmall"]
         ELSE IF DecLt(r.max_amount, from_amount) THEN [err |-> "AmountTooLarge"]
         ELSE LET fee == DecDiv(DecMul(from_amount, r.fee_percentage), DecHundred)
              IN  [err |-> "none", fee_amount |-> fee, rate |-> r.rate,
                   to_amount |-> DecMul(from_amount, r.rate)]

\* calculate_swap_amount (with get_exchange_rate): the error kind, or the
\* quote fee_amount = from_amount * fee_percentage / 100, to_amount =
\* (from_amount - fee_amount) * rate, and the rate of the row
calculate_swap_amount_decimal(rates, from, to, from_amount) ==
    IF DecLe(from_amount, DecZero) THEN [err |-> "System"]
    ELSE IF get_exchange_rate(rates, from, to).err # "none"
         THEN get_exchange_rate(rates, from, to)
    ELSE LET r == get_exchange_rate(rates, from, to).row IN
         IF DecLt(from_amount, r.min_amount) THEN [err |-> "AmountTooSmall"]
         ELSE IF DecLt(r.max_amount, from_amount) THEN [err |-> "AmountTooLarge"]
         ELSE LET fee == DecDiv(DecMul(from_amount, r.fee_percentage), DecHundred)
              IN  [err |-> "none", fee_amount |-> fee, rate |-> r.rate,
                   to_amount |-> DecMul(DecSub(from_amount, fee), r.rate)]

\* calculate_swap_amount on the ledger model's amounts
calculate_swap_amount(rates, from, to, from_amount) ==
    LET q == calculate_swap_amount_decimal(rates, from, to, FromHundredths(from_amount))
    IN  IF q.err # "none" THEN q
        ELSE [err |-> "none", fee_amount |-> InHundredths(q.fee_amount),
              rate |-> q.rate, to_amount |-> InHundredths(q.to_amount)]

\* ------------------------------------------------------------------ rows
\* create_transaction's INSERT: status 'pending', blockchain_tx_hash NULL
NewTransaction(id, from, to, c, amount, tax, type, ref) ==
    [id |-> id, from_player_id |-> from, to_player_id |-> to, currency |-> c,
     amount |-> amount, tax_amount |-> tax, transaction_type |-> type,
     reference_id |-> ref, status |-> "pending", blockchain_tx_hash |-> NoHash]

\* swap_currency's INSERT: status 'pending', both leg references NULL
NewSwap(id, player, from, to, from_amount, q) ==
    [id |-> id, player_id |-> player, from_currency |-> from, to_currency |-> to,
     from_amount |-> from_amount, to_amount |-> q.to_amount,
     fee_amount |-> q.fee_amount, rate |-> q.rate, status |-> "pending",
     from_transaction_id |-> NoId, to_transaction_id |-> NoId]

\* update_transaction_status (ledger): unconditional SET status, hash WHERE id
ledger_update_transaction_status(txs, id, status, hash) ==
    [txs EXCEPT ![id].status = status, ![id].blockchain_tx_hash = hash]

\* ---------------------------------------------------------- worker locals
LocInit ==
    [op |-> "none", player |-> "p1", to |-> "p1", cur |-> "Crystals",
     cur2 |-> "Crystals", amount |-> 0, guild |-> FALSE, tax |-> 0, total |-> 0,
     txid |-> NoId, swapid |-> NoId, to_amount |-> 0, fee |-> 0, rate |-> DecZero,
     from_tx |-> NoId, to_tx |-> NoId,
     who |-> "p1", wcur |-> "Crystals", wamt |-> 0, read |-> 0, ret |-> "return",
     tx_status |-> "none", at |-> "idle"]

NoResult == [status |-> "none", err |-> "none", required |-> 0, available |-> 0, id |-> NoId]

Ok(id) == [status |-> "ok", err |-> "none", required |-> 0, available |-> 0, id |-> id]

Err(kind) == [status |-> "err", err |-> kind, required |-> 0, available |-> 0, id |-> NoId]

InsufficientFunds(req, avail) ==
    [status |-> "err", err |-> "InsufficientFunds", required |-> req,
     available |-> avail, id |-> NoId]

Keys == Players \X Currencies

ZeroDelta == [k \in Keys |-> 0]

\* ===================================================== settlement adapter
\* BlockchainService (blockchain_integration.rs): its rows and its inputs

\* rows game.blockchain_transactions holds at most in one behaviour
MaxRows == 2

\* the background tasks that run monitor_pending_transactions
Monitors == {"m1", "m2"}

\* confirmed_at IS NULL.  A timestamp is modelled by the number of times the
\* column was set to NOW(): NOW() is later at every call, so setting the
\* column again changes its value.
NoTime == 0

\* a transaction_hash: the n-th signature the service obtained from
\* send_transaction, the signature of a transfer made outside the service, or
\* a string that is no signature
Hash(kind, n) == [kind |-> kind, n |-> n]

ServiceSigs == { Hash("service", n) : n \in 1..(MaxRows + MaxFaults) }

ExternalSigs == { Hash("external", 1) }

BadHash == Hash("unparsable", 1)

\* Signature::from_str(transaction_hash) is Ok
parses(h) == h.kind # "unparsable"

\* solana_client.get_signature_status(&signature) when the query succeeds:
\* Ok(Some(Ok(()))), Ok(Some(Err(_))) or Ok(None)
get_signature_status(ch, h) ==
    IF ch[h] = "success" THEN "success"
    ELSE IF ch[h] = "failure" THEN "failure"
    ELSE "none"

\* the same match with `Ok(None)` taken for a failure
status_for_none_failed(parsed, obs) ==
    IF ~parsed THEN "failed"
    ELSE IF obs = "success" THEN "confirmed"
    ELSE IF obs = "failure" THEN "failed"
    ELSE IF obs = "none" THEN "failed"
    ELSE "skip"

\* the same match with an on-chain failure taken for a confirmation
status_for_failure_confirmed(parsed, obs) ==
    IF ~parsed THEN "failed"
    ELSE IF obs = "success" THEN "confirmed"
    ELSE IF obs = "failure" THEN "confirmed"
    ELSE "skip"

\* the same match with `Ok(Some(Ok(())))` left to a later pass
status_for_success_skipped(parsed, obs) ==
    IF ~parsed THEN "failed"
    ELSE IF obs = "failure" THEN "failed"
    ELSE "skip"

\* the match of monitor_pending_transactions on the parse of the hash and on
\* the answer of the status query (obs is "error" when the query itself
\* failed): the status to write, or "skip" for `continue`
status_for(parsed, obs) ==
    IF ~parsed THEN "failed"
    ELSE IF obs = "success" THEN "confirmed"
    ELSE IF obs = "failure" THEN "failed"
    ELSE "skip"

\* the SELECT without its WHERE clause: the ids of all rows from the i-th on
RECURSIVE all_transactions(_, _)
all_transactions(rows, i) ==
    IF i > Len(rows) THEN <<>>
    ELSE <<i>> \o all_transactions(rows, i + 1)

\* SELECT ... FROM game.blockchain_transactions WHERE status = 'pending':
\* the ids of the rows from the i-th on that are pending
RECURSIVE pending_transactions(_, _)
pending_transactions(rows, i) ==
    IF i > Len(rows) THEN <<>>
    ELSE (IF rows[i].status = "pending" THEN <<i>> ELSE <<>>)
         \o pending_transactions(rows, i + 1)

\* the INSERT with confirmed_at = NOW() whatever the status
NewBlockchainTransaction_stamped(id, player, c, type, amount, h, status) ==
    [id |-> id, player_id |-> player, currency_type |-> c,
     transaction_type |-> type, amount |-> amount, transaction_hash |-> h,
     status |-> status, confirmed_at |-> NoTime + 1]

\* the row record_transaction inserts: confirmed_at = CASE WHEN $6 =
\* 'confirmed' THEN NOW() ELSE NULL END
NewBlockchainTransaction(id, player, c, type, amount, h, status) ==
    [id |-> id, player_id |-> player, currency_type |-> c,
     transaction_type |-> type, amount |-> amount, transaction_hash |-> h,
     status |-> status,
     confirmed_at |-> IF status = "confirmed" THEN NoTime + 1 ELSE NoTime]

\* an UPDATE that writes nothing
update_transaction_status_unwritten(rows, id, status) == rows

\* UPDATE game.blockchain_transactions SET status = $2, confirmed_at = CASE
\* WHEN $2 = 'confirmed' THEN NOW() ELSE confirmed_at END WHERE id = $1
update_transaction_status(rows, id, status) ==
    [rows EXCEPT ![id] =
        [@ EXCEPT !.status = status,
                  !.confirmed_at = IF status = "confirmed" THEN @ + 1 ELSE @]]

\* verification_nonce IS NULL
NoNonce == 0

\* every call is handed the same nonce
new_nonce_constant(n) == 1

\* format!("terminusa-verify-{}", Uuid::new_v4()), n values drawn before it
new_nonce(n) == n + 1

\* rows of auth.blockchain_wallets: p1 connected and verified, p2 connected
\* only and holding the nonce of that connection, p3 has no wallet
InitBlockchainWallets ==
    [p \in {"p1", "p2"} |->
        [solana_address |-> p, is_verified |-> (p = "p1"),
         connected_at |-> NoTime + 1,
         last_verified_at |-> IF p = "p1" THEN NoTime + 1 ELSE NoTime,
         verification_nonce |-> IF p = "p1" THEN NoNonce ELSE new_nonce(0)]]

\* locals of a monitor task: the rows its SELECT returned that are still to
\* visit, and for the row in hand the answer of the status query and the
\* status to write
MonInit == [list |-> <<>>, obs |-> "none", write |-> "skip"]

\* no computation asked for yet
NoCall == [fn |-> "none"]

\* bookkeeping of the two-pass scenario: its phase, the on-chain state when
\* the first pass started, when it returned and when the second returned, the
\* table the first pass left, whether the first pass met no error, and the
\* writes of the second pass to rows that were already terminal
NoRecon ==
    [phase |-> "off", rows1 |-> <<>>,
     chain0 |-> [h \in ServiceSigs \cup ExternalSigs |-> "unknown"],
     chain1 |-> [h \in ServiceSigs \cup ExternalSigs |-> "unknown"],
     chain2 |-> [h \in ServiceSigs \cup ExternalSigs |-> "unknown"],
     clean1 |-> TRUE, rewrites |-> 0]

\* ------------------------------------------------------------- storage
\* rows of game.wallets: balances are stored rows, not results of this code
InitWallets ==
    [p \in {"p1", "p2"} |->
        IF p = "p1"
        THEN [Solana |-> 2 * Hundred, Exons |-> 2 * Hundred, Crystals |-> 3 * Hundred]
        ELSE [Solana |-> 0, Exons |-> 0, Crystals |-> Hundred]]

\* rows of game.tax_settings: with and without a resolvable tax recipient
TaxConfigs ==
    { [c \in {"Crystals", "Solana"} |->
          IF c = "Crystals" THEN TaxRow(Dec(10, 0), Dec(5, 0), "p2")
          ELSE TaxRow(Dec(10, 0), DecZero, "p3")],
      [c \in {"Crystals"} |-> TaxRow(Dec(10, 0), Dec(5, 0), "adminbb")] }

\* rows of game.exchange_rates (rate: units of `to` per unit of `from`)
InitRates ==
    { RateRow("Exons", "Crystals", Dec(2, 0), Dec(1, 0), Dec(2, 0), Dec(50, 0), TRUE),
      RateRow("Crystals", "Exons", Dec(1, 0), Dec(2, 0), Dec(3, 0), Dec(Hundred, 0), TRUE),
      RateRow("Solana", "Crystals", Dec(1, 0), Dec(1, 0), Dec(2, 0), DecZero, FALSE) }

\* the ledger and swap services over their stored rows
LedgerStartWith(rates) ==
    /\ wallets = InitWallets
    /\ transactions = <<>>
    /\ swap_transactions = <<>>
    /\ exchange_rates = rates
    /\ pc = [w \in Procs |-> "idle"]
    /\ loc = [w \in Procs |-> LocInit]
    /\ result = [w \in Procs |-> NoResult]
    /\ delta = [w \in Procs |-> ZeroDelta]
    /\ expected = [k \in Keys |->
                     IF k[1] \in DOMAIN InitWallets THEN InitWallets[k[1]][k[2]] ELSE 0]
    /\ ops = 0
    /\ faults = 0

LedgerStart == LedgerStartWith(InitRates)

\* ids uuid_generate_v4() gives to the players registered, in order
NewPlayers == <<"n1", "n2", "n3">>

NoPlayer == "none"

AccountIds == Players \cup { NewPlayers[i] : i \in DOMAIN NewPlayers }

\* an email address, character by character
Email(local) == <<local, "@", "t">>

\* auth.players, game.player_profiles, game.player_stats and game.inventories
\* hold a row for every player there is; game.wallets holds the rows
\* InitWallets gives
InitAccounts ==
    [players |-> { [id |-> p, username |-> p, email |-> Email(p)] : p \in Players },
     player_profiles |-> Players,
     player_stats |-> Players,
     inventories |-> Players,
     wallets |-> [id \in AccountIds |-> IF id \in DOMAIN InitWallets THEN 1 ELSE 0]]

\* the settlement adapter over an empty game.blockchain_transactions, the
\* account layer built with or without .with_currency_service(..)
ChainStartWith(service) ==
    /\ player_tables = InitAccounts
    /\ currency_service = service
    /\ blockchain_wallets = InitBlockchainWallets
    /\ uuids = 1
    /\ now = NoTime + 1
    /\ blockchain_transactions = <<>>
    /\ chain = [h \in ServiceSigs \cup ExternalSigs |-> "unknown"]
    /\ submitted = 0
    /\ mpc = [m \in Monitors |-> "idle"]
    /\ mloc = [m \in Monitors |-> MonInit]

ChainStart == ChainStartWith(TRUE)

\* CurrencyService and TokenSwapperService serving requests
Init ==
    /\ LedgerStart
    /\ tax_settings \in TaxConfigs
    /\ solana_client \in BOOLEAN
    /\ ChainStart
    /\ treasury_wallet_keypair = FALSE
    /\ recon = NoRecon
    /\ call = NoCall

\* BlockchainService serving requests, its monitor tasks running
InitChain ==
    /\ LedgerStart
    /\ tax_settings = [c \in {"Crystals"} |-> TaxRow(Dec(10, 0), Dec(5, 0), "adminbb")]
    /\ solana_client = FALSE
    /\ ChainStart
    /\ treasury_wallet_keypair \in BOOLEAN
    /\ recon = NoRecon
    /\ call = NoCall

\* BlockchainService before two passes of one monitor task in succession
InitReconcile ==
    /\ LedgerStart
    /\ tax_settings = [c \in {"Crystals"} |-> TaxRow(Dec(10, 0), Dec(5, 0), "adminbb")]
    /\ solana_client = FALSE
    /\ ChainStart
    /\ treasury_wallet_keypair = TRUE
    /\ recon = [NoRecon EXCEPT !.phase = "setup"]
    /\ call = NoCall

\* ------------------------------------------------------------ call inputs
AddInputs ==
    { <<"p1", "Crystals", Hundred>>, <<"p3", "Crystals", Hundred>>,
      <<"p1", "Crystals", 0>> }

RemoveInputs ==
    { <<"p1", "Crystals", Hundred>>, <<"p2", "Crystals", 2 * Hundred>>,
      <<"p1", "Crystals", 0>> }

\* <<from, to, currency, amount, is_guild_transaction>>
TransferInputs ==
    { <<"p1", "p2", "Crystals", Hundred, FALSE>>,
      <<"p1", "p2", "Crystals", Hundred, TRUE>>,
      <<"p1", "p3", "Crystals", Hundred, FALSE>>,
      <<"p1", "p2", "Solana", Hundred, FALSE>>,
      <<"p1", "p2", "Exons", Hundred, FALSE>>,
      <<"p2", "p1", "Crystals", 2 * Hundred, FALSE>>,
      <<"p2", "p1", "Crystals", Hundred, FALSE>>,
      <<"p3", "p1", "Crystals", Hundred, FALSE>>,
      <<"p1", "p2", "Crystals", 0, FALSE>> }

\* <<player, from_currency, to_currency, from_amount>>
SwapInputs ==
    { <<"p1", "Exons", "Crystals", Hundred>>,
      <<"p2", "Exons", "Crystals", Hundred>>,
      <<"p1", "Crystals", "Exons", 2 * Hundred>>,
      <<"p1", "Crystals", "Exons", Hundred>>,
      <<"p1", "Exons", "Crystals", 3 * Hundred>>,
      <<"p1", "Solana", "Crystals", Hundred>>,
      <<"p1", "Exons", "Solana", Hundred>>,
      <<"p1", "Exons", "Crystals", 0>> }

\* ------------------------------------------------------------ step helpers
config == <<exchange_rates, tax_settings, solana_client, chainVars, call>>

\* worker w moves to `label` with locals l
Step(w, l, label) ==
    /\ pc' = [pc EXCEPT ![w] = label]
    /\ loc' = [loc EXCEPT ![w] = l]
    /\ result' = [result EXCEPT ![w] = NoResult]

\* the handler of worker w returns r to its caller
Finish(w, l, r) ==
    /\ pc' = [pc EXCEPT ![w] = "done"]
    /\ loc' = [loc EXCEPT ![w] = [l EXCEPT !.at = pc[w]]]
    /\ result' = [result EXCEPT ![w] = r]

\* a call of add_currency / remove_currency(who, c, amount) made by worker w;
\* ret is where w continues when the call returns Ok (an Err ends the handler:
\* every caller propagates it, with `?` or after its empty rollback)
Call(w, l, label, who, c, amount, ret) ==
    Step(w, [l EXCEPT !.who = who, !.wcur = c, !.wamt = amount, !.ret = ret], label)

\* transfer_currency: remove_currency returned Ok; add_currency(to, amount)
transfer_credit(w, l) ==
    Call(w, l, "add_currency_get_wallet", l.to, l.cur, l.amount, "transfer_tax")

\* transfer_currency: if tax > 0, get_tax_settings and the lookup of the admin
\* player; add_currency(admin, tax) only if that player exists
transfer_tax(w, l) ==
    LET admin == player_by_username(get_tax_settings(tax_settings, l.cur).admin_account)
    IN  IF l.tax > 0 /\ admin # System
        THEN Call(w, l, "add_currency_get_wallet", admin, l.cur, l.tax,
                  "transfer_tax_record")
        ELSE Step(w, l, "transfer_finish")

\* add_currency / remove_currency returns Ok: its caller runs on to its next
\* statement on the database
ReturnOk(w, l) ==
    IF l.ret = "return" THEN Finish(w, l, Ok(NoId))
    ELSE IF l.ret = "transfer_credit" THEN transfer_credit(w, l)
    ELSE IF l.ret = "transfer_tax" THEN transfer_tax(w, l)
    ELSE Step(w, l, l.ret)

\* a caller starts a handler on a free worker w
Start(w) ==
    /\ pc[w] \in {"idle", "done"}
    /\ ops < MaxOps
    /\ ops' = ops + 1
    /\ delta' = [delta EXCEPT ![w] = ZeroDelta]

\* a storage failure (sqlx::Error) of the statement about to run; in the
\* ledger failures are injected at the statements that write a record between
\* two balance updates
Fault ==
    /\ faults < MaxFaults
    /\ faults' = faults + 1

\* the write of one balance column by worker w, with its bookkeeping
WriteBalance(w, who, c, new_balance) ==
    /\ wallets' = [wallets EXCEPT ![who][c] = update_balance(@, new_balance)]
    /\ delta' = [delta EXCEPT ![w][<<who, c>>] =
                    @ + (update_balance(wallets[who][c], new_balance) - wallets[who][c])]

\* ------------------------------------------------- CurrencyService handlers
\* add_currency, entered by an outside caller
add_currency(w) ==
    /\ Start(w)
    /\ \E in \in AddInputs :
          Call(w, [LocInit EXCEPT !.op = "add_currency"], "add_currency_get_wallet",
               in[1], in[2], in[3], "return")
    /\ UNCHANGED <<wallets, transactions, swap_transactions, config, expected, faults>>

\* add_currency: the amount check and get_wallet
add_currency_get_wallet(w) ==
    /\ pc[w] = "add_currency_get_wallet"
    /\ LET l == loc[w] IN
         IF l.wamt <= 0 THEN Finish(w, l, Err("InvalidAmount"))
         ELSE IF l.who \notin DOMAIN wallets THEN Finish(w, l, Err("WalletNotFound"))
         ELSE Step(w, [l EXCEPT !.read = wallets[l.who][l.wcur]], "add_currency_update")
    /\ UNCHANGED <<wallets, transactions, swap_transactions, config, delta, expected,
                   ops, faults>>

\* add_currency: update_balance(player, currency, balance read + amount)
add_currency_update(w) ==
    /\ pc[w] = "add_currency_update"
    /\ LET l == loc[w] IN
         /\ WriteBalance(w, l.who, l.wcur, l.read + l.wamt)
         /\ expected' = [expected EXCEPT ![<<l.who, l.wcur>>] = @ + l.wamt]
         /\ ReturnOk(w, l)
    /\ UNCHANGED <<transactions, swap_transactions, config, ops, faults>>

\* remove_currency, entered by an outside caller
remove_currency(w) ==
    /\ Start(w)
    /\ \E in \in RemoveInputs :
          Call(w, [LocInit EXCEPT !.op = "remove_currency"], "remove_currency_get_wallet",
               in[1], in[2], in[3], "return")
    /\ UNCHANGED <<wallets, transactions, swap_transactions, config, expected, faults>>

\* remove_currency: the amount check, get_wallet and the sufficiency check
remove_currency_get_wallet(w) ==
    /\ pc[w] = "remove_currency_get_wallet"
    /\ LET l == loc[w] IN
         IF l.wamt <= 0 THEN Finish(w, l, Err("InvalidAmount"))
         ELSE IF l.who \notin DOMAIN wallets THEN Finish(w, l, Err("WalletNotFound"))
         ELSE IF wallets[l.who][l.wcur] < l.wamt
              THEN Finish(w, l, InsufficientFunds(l.wamt, wallets[l.who][l.wcur]))
         ELSE Step(w, [l EXCEPT !.read = wallets[l.who][l.wcur]], "remove_currency_update")
    /\ UNCHANGED <<wallets, transactions, swap_transactions, config, delta, expected,
                   ops, faults>>

\* remove_currency: update_balance(player, currency, balance read - amount)
remove_currency_update(w) ==
    /\ pc[w] = "remove_currency_update"
    /\ LET l == loc[w] IN
         /\ WriteBalance(w, l.who, l.wcur, l.read - l.wamt)
         /\ expected' = [expected EXCEPT ![<<l.who, l.wcur>>] = @ - l.wamt]
         /\ ReturnOk(w, l)
    /\ UNCHANGED <<transactions, swap_transactions, config, ops, faults>>

\* transfer_currency: the amount check, get_currency_by_type, calculate_tax
\* and db_pool.begin()
transfer_currency(w) ==
    /\ Start(w)
    /\ \E in \in TransferInputs :
          LET tax == calculate_tax(tax_settings, in[4], in[3], in[5])
              l == [LocInit EXCEPT !.op = "transfer_currency", !.player = in[1],
                                   !.to = in[2], !.cur = in[3], !.amount = in[4],
                                   !.guild = in[5], !.tax = tax, !.total = in[4] + tax]
          IN  IF in[4] <= 0 THEN Finish(w, l, Err("InvalidAmount"))
              ELSE Step(w, l, "transfer_check_funds")
    /\ UNCHANGED <<wallets, transactions, swap_transactions, config, expected, faults>>

\* a sufficiency check that compares the balance with the amount alone
transfer_check_funds_amount_only(w) ==
    /\ pc[w] = "transfer_check_funds"
    /\ LET l == loc[w] IN
         IF l.player \notin DOMAIN wallets THEN Finish(w, l, Err("WalletNotFound"))
         ELSE IF wallets[l.player][l.cur] < l.amount
              THEN Finish(w, l, InsufficientFunds(l.amount, wallets[l.player][l.cur]))
         ELSE Step(w, l, "transfer_create_transaction")
    /\ UNCHANGED <<wallets, transactions, swap_transactions, config, delta, expected,
                   ops, faults>>

\* transfer_currency: get_balance of the sender against amount + tax
transfer_check_funds(w) ==
    /\ pc[w] = "transfer_check_funds"
    /\ LET l == loc[w] IN
         IF l.player \notin DOMAIN wallets THEN Finish(w, l, Err("WalletNotFound"))
         ELSE IF wallets[l.player][l.cur] < l.total
              THEN Finish(w, l, InsufficientFunds(l.total, wallets[l.player][l.cur]))
         ELSE Step(w, l, "transfer_create_transaction")
    /\ UNCHANGED <<wallets, transactions, swap_transactions, config, delta, expected,
                   ops, faults>>

\* transfer_currency: create_transaction of the primary record, then the
\* branch on currency.is_blockchain up to its first statement
transfer_create_transaction(w) ==
    /\ pc[w] = "transfer_create_transaction"
    /\ LET l == loc[w]
           id == Len(transactions) + 1
           l1 == [l EXCEPT !.txid = id, !.tx_status = "pending"]
       IN
         /\ transactions' = Append(transactions,
                NewTransaction(id, l.player, l.to, l.cur, l.amount, l.tax,
                               "transfer", NoId))
         /\ IF is_blockchain(l.cur) /\ l.cur = "Solana"
            THEN IF solana_client THEN Step(w, l1, "transfer_blockchain")
                 ELSE Finish(w, l1, Err("System"))
            ELSE Call(w, l1, "remove_currency_get_wallet", l.player, l.cur, l.total,
                      "transfer_credit")
    /\ UNCHANGED <<wallets, swap_transactions, config, delta, expected, ops, faults>>

\* transfer_currency, Solana: handle_solana_transfer returns its mock signature
\* and update_transaction_status stores Completed with it
transfer_blockchain(w) ==
    /\ pc[w] = "transfer_blockchain"
    /\ LET l == loc[w] IN
         /\ transactions' = ledger_update_transaction_status(
                transactions, l.txid, "completed", MockSignature)
         /\ Call(w, l, "remove_currency_get_wallet", l.player, l.cur, l.total,
                 "transfer_credit")
    /\ UNCHANGED <<wallets, swap_transactions, config, delta, expected, ops, faults>>

\* transfer_currency: create_transaction of the tax record
transfer_tax_record(w) ==
    /\ pc[w] = "transfer_tax_record"
    /\ LET l == loc[w]
           admin == player_by_username(get_tax_settings(tax_settings, l.cur).admin_account)
       IN
         \/ /\ Fault
            /\ Finish(w, l, Err("Database"))
            /\ UNCHANGED transactions
         \/ /\ transactions' = Append(transactions,
                   NewTransaction(Len(transactions) + 1, l.player, admin, l.cur, l.tax, 0,
                                  "tax", l.txid))
            /\ Step(w, l, "transfer_finish")
            /\ UNCHANGED faults
    /\ UNCHANGED <<wallets, swap_transactions, config, delta, expected, ops>>

\* transfer_currency: `if transaction.status == Pending` tests the struct that
\* create_transaction returned, then update_transaction_status(Completed, None),
\* tx.commit() and get_transaction
transfer_finish(w) ==
    /\ pc[w] = "transfer_finish"
    /\ LET l == loc[w] IN
         /\ transactions' =
               IF l.tx_status = "pending"
               THEN ledger_update_transaction_status(transactions, l.txid,
                                                     "completed", NoHash)
               ELSE transactions
         /\ Finish(w, l, Ok(l.txid))
    /\ UNCHANGED <<wallets, swap_transactions, config, delta, expected, ops, faults>>

\* ---------------------------------------------- TokenSwapperService handlers
\* swap_currency: the amount check, calculate_swap_amount and db_pool.begin()
swap_currency(w) ==
    /\ Start(w)
    /\ \E in \in SwapInputs :
          LET q == calculate_swap_amount(exchange_rates, in[2], in[3], in[4])
              l == [LocInit EXCEPT !.op = "swap_currency", !.player = in[1],
                                   !.cur = in[2], !.cur2 = in[3], !.amount = in[4]]
          IN  IF q.err # "none" THEN Finish(w, l, Err(q.err))
              ELSE Step(w, [l EXCEPT !.to_amount = q.to_amount, !.fee = q.fee_amount,
                                     !.rate = q.rate], "swap_create_record")
    /\ UNCHANGED <<wallets, transactions, swap_transactions, config, expected, faults>>

\* swap_currency: INSERT of the pending swap record (the table's CHECK
\* constraints reject to_amount <= 0), then the call of remove_currency
swap_create_record(w) ==
    /\ pc[w] = "swap_create_record"
    /\ LET l == loc[w]
           id == Len(swap_transactions) + 1
           q == [to_amount |-> l.to_amount, fee_amount |-> l.fee, rate |-> l.rate]
       IN
         IF l.to_amount <= 0
         THEN /\ Finish(w, l, Err("Database"))
              /\ UNCHANGED swap_transactions
         ELSE /\ swap_transactions' = Append(swap_transactions,
                     NewSwap(id, l.player, l.cur, l.cur2, l.amount, q))
              /\ Call(w, [l EXCEPT !.swapid = id], "remove_currency_get_wallet",
                      l.player, l.cur, l.amount, "swap_from_record")
    /\ UNCHANGED <<wallets, transactions, config, delta, expected, ops, faults>>

\* swap_currency: remove_currency returned Ok; get_currency_id and
\* create_transaction of the source leg, then the call of add_currency
swap_from_record(w) ==
    /\ pc[w] = "swap_from_record"
    /\ LET l == loc[w]
           id == Len(transactions) + 1
       IN
         \/ /\ Fault
            /\ Finish(w, l, Err("Database"))
            /\ UNCHANGED transactions
         \/ /\ transactions' = Append(transactions,
                   NewTransaction(id, l.player, System, l.cur, l.amount, 0, "swap", l.swapid))
            /\ Call(w, [l EXCEPT !.from_tx = id], "add_currency_get_wallet",
                    l.player, l.cur2, l.to_amount, "swap_to_record")
            /\ UNCHANGED faults
    /\ UNCHANGED <<wallets, swap_transactions, config, delta, expected, ops>>

\* swap_currency: add_currency returned Ok; create_transaction of the target leg
swap_to_record(w) ==
    /\ pc[w] = "swap_to_record"
    /\ LET l == loc[w]
           id == Len(transactions) + 1
       IN
         \/ /\ Fault
            /\ Finish(w, l, Err("Database"))
            /\ UNCHANGED transactions
         \/ /\ transactions' = Append(transactions,
                   NewTransaction(id, System, l.player, l.cur2, l.to_amount, 0, "swap",
                                  l.swapid))
            /\ Step(w, [l EXCEPT !.to_tx = id], "swap_complete")
            /\ UNCHANGED faults
    /\ UNCHANGED <<wallets, swap_transactions, config, delta, expected, ops>>

\* swap_currency: UPDATE of the swap record to 'completed' with both leg ids,
\* then tx.commit()
swap_complete(w) ==
    /\ pc[w] = "swap_complete"
    /\ LET l == loc[w] IN
         /\ swap_transactions' =
               [swap_transactions EXCEPT ![l.swapid].status = "completed",
                                         ![l.swapid].from_transaction_id = l.from_tx,
                                         ![l.swapid].to_transaction_id = l.to_tx]
         /\ Finish(w, l, Ok(l.swapid))
    /\ UNCHANGED <<wallets, transactions, config, delta, expected, ops, faults>>

Next ==
    \E w \in Procs :
        \/ add_currency(w)
        \/ add_currency_get_wallet(w)
        \/ add_currency_update(w)
        \/ remove_currency(w)
        \/ remove_currency_get_wallet(w)
        \/ remove_currency_update(w)
        \/ transfer_currency(w)
        \/ transfer_check_funds(w)
        \/ transfer_create_transaction(w)
        \/ transfer_blockchain(w)
        \/ transfer_tax_record(w)
        \/ transfer_finish(w)
        \/ swap_currency(w)
        \/ swap_create_record(w)
        \/ swap_from_record(w)
        \/ swap_to_record(w)
        \/ swap_complete(w)

Spec == Init /\ [][Next]_vars

\* ------------------------------------------ the status update as a request
\* TransactionStatus
TransactionStatuses == {"pending", "completed", "failed", "cancelled"}

\* update_transaction_status (CurrencyService), called from outside: one
\* UPDATE ... WHERE id = $1 with the status given; an id that matches no row
\* is TransactionNotFound and writes nothing
currency_update_transaction_status ==
    /\ ops < MaxOps
    /\ ops' = ops + 1
    /\ \E id \in 1..(Len(transactions) + 1), status \in TransactionStatuses :
          transactions' =
              IF id \in DOMAIN transactions
              THEN ledger_update_transaction_status(transactions, id, status, NoHash)
              ELSE transactions
    /\ UNCHANGED <<wallets, swap_transactions, config, pc, loc, result, delta,
                   expected, faults>>

NextStatus ==
    \/ Next
    \/ currency_update_transaction_status

\* CurrencyService with update_transaction_status open to its callers
SpecStatus == Init /\ [][NextStatus]_vars

\* ------------------------------------------------------ rewards as requests
\* <<player, currency, amount, transaction_type>>
RewardInputs ==
    { <<"p1", "Crystals", Hundred, "reward">>,
      <<"p3", "Crystals", Hundred, "gate_reward">>,
      <<"p1", "Crystals", 0, "quest_reward">> }

\* reward_currency: the credit of the player, add_currency(player, amount)
reward_credit(w, l) ==
    Call(w, l, "add_currency_get_wallet", l.player, l.cur, l.amount, "reward_finish")

\* a reward_currency that creates its record whatever the amount is
reward_currency_unchecked(w) ==
    /\ Start(w)
    /\ \E in \in RewardInputs :
          LET id == Len(transactions) + 1
              l == [LocInit EXCEPT !.op = "reward_currency", !.player = in[1],
                                   !.to = in[1], !.cur = in[2], !.amount = in[3]]
          IN  /\ transactions' = Append(transactions,
                     NewTransaction(id, System, in[1], in[2], in[3], 0, in[4], NoId))
              /\ reward_credit(w, [l EXCEPT !.txid = id, !.tx_status = "pending"])
    /\ UNCHANGED <<wallets, swap_transactions, config, expected, faults>>

\* reward_currency: the amount check, get_currency_by_type, db_pool.begin()
\* and create_transaction(None, Some(player), .., amount, ZERO, type, ..),
\* then the credit
reward_currency(w) ==
    /\ Start(w)
    /\ \E in \in RewardInputs :
          LET id == Len(transactions) + 1
              l == [LocInit EXCEPT !.op = "reward_currency", !.player = in[1],
                                   !.to = in[1], !.cur = in[2], !.amount = in[3]]
          IN  IF in[3] <= 0
              THEN /\ Finish(w, l, Err("InvalidAmount"))
                   /\ UNCHANGED transactions
              ELSE /\ transactions' = Append(transactions,
                          NewTransaction(id, System, in[1], in[2], in[3], 0, in[4], NoId))
                   /\ reward_credit(w, [l EXCEPT !.txid = id, !.tx_status = "pending"])
    /\ UNCHANGED <<wallets, swap_transactions, config, expected, faults>>

\* reward_currency: the record is marked completed and returned
reward_finish(w) ==
    /\ pc[w] = "reward_finish"
    /\ LET l == loc[w] IN
         /\ transactions' = ledger_update_transaction_status(transactions, l.txid,
                                                             "completed", NoHash)
         /\ Finish(w, l, Ok(l.txid))
    /\ UNCHANGED <<wallets, swap_transactions, config, delta, expected, ops, faults>>

NextReward ==
    \/ Next
    \/ \E w \in Procs :
          \/ reward_currency(w)
          \/ reward_finish(w)

\* CurrencyService and TokenSwapperService with reward_currency among the
\* requests
SpecReward == Init /\ [][NextReward]_vars

\* --------------------------------------------------- calculate_tax alone
\* <<tax_percentage, guild_tax_percentage>> of the stored rows
TaxPercents ==
    { <<Dec(13, 0), DecZero>>, <<Dec(10, 0), Dec(5, 0)>>, <<DecZero, Dec(5, 0)>>,
      <<Dec(125, 1), Dec(25, 1)>>, <<Dec(Hundred, 0), Dec(Hundred, 0)>> }

\* game.tax_settings with a row for Crystals only, or with no row at all
TaxTables ==
    { [c \in {"Crystals"} |-> TaxRow(p[1], p[2], "adminbb")] : p \in TaxPercents }
    \cup { [c \in {} |-> TaxRow(DecZero, DecZero, "adminbb")] }

\* amounts handed to calculate_tax, whole and with decimal places
TaxAmounts ==
    { DecZero, Dec(1, 0), Dec(Hundred, 0), Dec(1, 2), Dec(105, 2), Dec(12345, 3) }

InitTax ==
    /\ LedgerStart
    /\ tax_settings \in TaxTables
    /\ solana_client = FALSE
    /\ ChainStart
    /\ treasury_wallet_keypair = FALSE
    /\ recon = NoRecon
    /\ call = NoCall

\* calculate_tax(amount, currency, is_guild_transaction) returns Ok(tax)
calculate_tax_call ==
    /\ \E amount \in TaxAmounts, c \in {"Crystals", "Exons"}, is_guild \in BOOLEAN :
          call' = [fn |-> "calculate_tax", amount |-> amount, currency |-> c,
                   is_guild |-> is_guild,
                   ret |-> calculate_tax_decimal(tax_settings, amount, c, is_guild)]
    /\ UNCHANGED <<ledgerVars, chainVars>>

NextTax == calculate_tax_call

\* CurrencyService asked for taxes over each tax table
SpecTax == InitTax /\ [][NextTax]_vars

\* ------------------------------------------- calculate_swap_amount alone
\* rows stored for Exons -> Crystals
QuoteRows ==
    { RateRow("Exons", "Crystals", Dec(Hundred, 0), Dec(1, 0), Dec(1000, 0), Dec(13, 0), TRUE),
      RateRow("Exons", "Crystals", Dec(5, 1), Dec(1, 0), Dec(1000, 0), Dec(25, 1), TRUE),
      RateRow("Exons", "Crystals", Dec(1, 3), Dec(1, 2), Dec(10, 0), DecZero, TRUE),
      RateRow("Exons", "Crystals", Dec(2, 0), Dec(10, 0), Dec(20, 0), Dec(Hundred, 0), TRUE),
      RateRow("Exons", "Crystals", Dec(15, 1), Dec(1, 0), Dec(1000, 0), Dec(1, 2), TRUE),
      RateRow("Exons", "Crystals", Dec(Hundred, 0), Dec(1, 0), Dec(1000, 0), Dec(13, 0), FALSE) }

\* game.exchange_rates with a row for Exons -> Crystals and one for the way
\* back, none for any other pair
QuoteTables ==
    { { r, RateRow("Crystals", "Exons", Dec(1, 2), Dec(Hundred, 0), Dec(1000, 0),
                   Dec(13, 0), TRUE) } : r \in QuoteRows }

\* <<from_currency, to_currency>> asked for
QuotePairs == { <<"Exons", "Crystals">>, <<"Crystals", "Exons">>, <<"Solana", "Exons">> }

\* from_amount asked for
QuoteAmounts ==
    { DecZero, Dec(1, 2), Dec(1, 0), Dec(10, 0), Dec(105, 1), Dec(125, 2),
      Dec(1000, 0), Dec(2000, 0) }

InitQuote ==
    /\ \E rates \in QuoteTables : LedgerStartWith(rates)
    /\ tax_settings = [c \in {"Crystals"} |-> TaxRow(Dec(10, 0), Dec(5, 0), "adminbb")]
    /\ solana_client = FALSE
    /\ ChainStart
    /\ treasury_wallet_keypair = FALSE
    /\ recon = NoRecon
    /\ call = NoCall

\* calculate_swap_amount(from_currency, to_currency, from_amount) returns
\* Ok((to_amount, fee_amount, rate)) or its error
calculate_swap_amount_call ==
    /\ \E pair \in QuotePairs, from_amount \in QuoteAmounts :
          call' = [fn |-> "calculate_swap_amount", from |-> pair[1], to |-> pair[2],
                   from_amount |-> from_amount,
                   ret |-> calculate_swap_amount_decimal(exchange_rates, pair[1],
                                                         pair[2], from_amount)]
    /\ UNCHANGED <<ledgerVars, chainVars>>

NextQuote == calculate_swap_amount_call

\* TokenSwapperService asked for quotes over each rate table
SpecQuote == InitQuote /\ [][NextQuote]_vars

\* ------------------------------------------------------ rate maintenance
\* a value as a DECIMAL(_, places) column keeps it: rounded to that many
\* places, halves away from zero (values here are not negative when stored)
numeric(d, places) ==
    IF d.e <= places THEN d
    ELSE Dec((d.m + Pow10(d.e - places) \div 2) \div Pow10(d.e - places), places)

\* the row as game.exchange_rates keeps it: rate, min_amount and max_amount
\* DECIMAL(20,9), fee_percentage DECIMAL(5,2)
stored_rate(row) ==
    [row EXCEPT !.rate = numeric(@, 9), !.min_amount = numeric(@, 9),
                !.max_amount = numeric(@, 9), !.fee_percentage = numeric(@, 2)]

\* the CHECK constraints of game.exchange_rates
exchange_rates_check(row) ==
    /\ DecLt(DecZero, row.rate)
    /\ DecLt(DecZero, row.min_amount)
    /\ DecLt(row.min_amount, row.max_amount)
    /\ DecLe(DecZero, row.fee_percentage) /\ DecLe(row.fee_percentage, DecHundred)

\* CONSTRAINT unique_currency_pair, met by inserting row into rates
unique_currency_pair(rates, row) ==
    rows_for(rates, row.from_currency, row.to_currency) = {}

\* a validation that lets max_amount <= min_amount through
validation_error_no_max(row) ==
    \/ DecLe(row.rate, DecZero)
    \/ DecLe(row.min_amount, DecZero)
    \/ DecLt(row.fee_percentage, DecZero) \/ DecLt(DecHundred, row.fee_percentage)

\* update_exchange_rate: "Validate inputs", TRUE when it returns its error
validation_error(row) ==
    \/ DecLe(row.rate, DecZero)
    \/ DecLe(row.min_amount, DecZero)
    \/ DecLe(row.max_amount, row.min_amount)
    \/ DecLt(row.fee_percentage, DecZero) \/ DecLt(DecHundred, row.fee_percentage)

\* arguments of update_exchange_rate: accepted and refused values, for a
\* pair that has a row and for pairs that have none
RateInputs ==
    { RateRow("Exons", "Crystals", Dec(3, 0), Dec(1, 0), Dec(5, 0), Dec(13, 0), TRUE),
      RateRow("Exons", "Crystals", Dec(3, 0), Dec(1, 0), Dec(5, 0), DecZero, FALSE),
      RateRow("Solana", "Exons", Dec(1000, 0), Dec(1, 2), Dec(Hundred, 0), Dec(Hundred, 0), TRUE),
      RateRow("Exons", "Crystals", DecZero, Dec(1, 0), Dec(5, 0), Dec(13, 0), TRUE),
      RateRow("Solana", "Exons", Dec(1, 0), DecZero, Dec(5, 0), Dec(13, 0), TRUE),
      RateRow("Exons", "Crystals", Dec(1, 0), Dec(5, 0), Dec(5, 0), Dec(13, 0), TRUE),
      RateRow("Solana", "Exons", Dec(1, 0), Dec(1, 0), Dec(5, 0), Dec(1001, 1), TRUE),
      RateRow("Exons", "Crystals", Dec(1, 0), Dec(1, 0), Dec(5, 0), Dec(-1, 0), TRUE),
      RateRow("Crystals", "Solana", Dec(1, 10), Dec(1, 0), Dec(5, 0), Dec(13, 0), TRUE),
      RateRow("Crystals", "Exons", Dec(1, 10), Dec(1, 0), Dec(5, 0), Dec(13, 0), TRUE) }

\* <<current_supply of Exons, current_supply of Crystals>> that
\* update_market_rates reads
SupplyInputs ==
    { <<DecZero, DecZero>>, <<Dec(1000000, 0), Dec(10000000, 0)>>,
      <<Dec(3000000, 0), DecZero>> }

\* update_market_rates: the four rows it hands to update_exchange_rate, in
\* the order of its calls
market_rates(exons_supply, crystals_supply) ==
    LET sol_to_exon_rate ==
            DecMul(Dec(1000, 0),
                   DecAdd(Dec(1, 0), DecDiv(exons_supply, Dec(1000000, 0))))
        exon_to_crystal_rate ==
            DecMul(Dec(Hundred, 0),
                   DecAdd(Dec(1, 0), DecDiv(crystals_supply, Dec(10000000, 0))))
    IN  << RateRow("Solana", "Exons", sol_to_exon_rate,
                   Dec(1, 2), Dec(Hundred, 0), Dec(2, 0), TRUE),
           RateRow("Exons", "Solana", DecDiv(Dec(1, 0), sol_to_exon_rate),
                   Dec(10, 0), Dec(100000, 0), Dec(2, 0), TRUE),
           RateRow("Exons", "Crystals", exon_to_crystal_rate,
                   Dec(1, 0), Dec(1000, 0), Dec(13, 0), TRUE),
           RateRow("Crystals", "Exons", DecDiv(Dec(1, 0), exon_to_crystal_rate),
                   Dec(Hundred, 0), Dec(100000, 0), Dec(13, 0), TRUE) >>

\* locals of a worker in rate maintenance: the row in hand, the rows
\* update_market_rates has still to hand over, what the SELECT found
RateLoc(op, row, queue) ==
    [op |-> op, row |-> row, queue |-> queue, existing |-> FALSE, at |-> "idle"]

\* update_exchange_rate entered with the row of l: its validation
enter_update_exchange_rate(w, l) ==
    IF validation_error(l.row) THEN Finish(w, l, Err("System"))
    ELSE Step(w, l, "update_exchange_rate_select")

\* update_exchange_rate returned Ok: its caller ends, or update_market_rates
\* makes its next call
exchange_rate_updated(w, l) ==
    IF l.queue = <<>> THEN Finish(w, l, Ok(NoId))
    ELSE enter_update_exchange_rate(w, [l EXCEPT !.row = Head(l.queue),
                                                 !.queue = Tail(l.queue)])

rateFrame == <<wallets, transactions, swap_transactions, tax_settings, solana_client,
               chainVars, call, expected, faults>>

\* update_exchange_rate, entered by an outside caller
update_exchange_rate(w) ==
    /\ Start(w)
    /\ \E row \in RateInputs :
          enter_update_exchange_rate(w, RateLoc("update_exchange_rate", row, <<>>))
    /\ UNCHANGED <<rateFrame, exchange_rates>>

\* update_market_rates: the three get_currency_by_type reads, the new rates,
\* and its first call of update_exchange_rate
update_market_rates(w) ==
    /\ Start(w)
    /\ \E supply \in SupplyInputs :
          LET rows == market_rates(supply[1], supply[2])
          IN  enter_update_exchange_rate(
                  w, RateLoc("update_market_rates", Head(rows), Tail(rows)))
    /\ UNCHANGED <<rateFrame, exchange_rates>>

\* update_exchange_rate: SELECT id ... WHERE from_currency, to_currency
update_exchange_rate_select(w) ==
    /\ pc[w] = "update_exchange_rate_select"
    /\ LET l == loc[w] IN
         Step(w, [l EXCEPT !.existing = ~unique_currency_pair(exchange_rates, l.row)],
              "update_exchange_rate_write")
    /\ UNCHANGED <<rateFrame, exchange_rates, delta, ops>>

\* update_exchange_rate: the UPDATE of the pair's row if the SELECT found
\* one, else the INSERT; a statement that breaks a constraint of the table
\* fails and writes nothing
update_exchange_rate_write(w) ==
    /\ pc[w] = "update_exchange_rate_write"
    /\ LET l == loc[w]
           new == stored_rate(l.row)
           old == rows_for(exchange_rates, l.row.from_currency, l.row.to_currency)
       IN
         IF l.existing
         THEN IF old = {} \/ ~exchange_rates_check(new)
              THEN /\ Finish(w, l, Err("Database"))
                   /\ UNCHANGED exchange_rates
              ELSE /\ exchange_rates' = (exchange_rates \ old) \cup {new}
                   /\ exchange_rate_updated(w, l)
         ELSE IF ~unique_currency_pair(exchange_rates, new) \/ ~exchange_rates_check(new)
              THEN /\ Finish(w, l, Err("Database"))
                   /\ UNCHANGED exchange_rates
              ELSE /\ exchange_rates' = exchange_rates \cup {new}
                   /\ exchange_rate_updated(w, l)
    /\ UNCHANGED <<rateFrame, delta, ops>>

NextRates ==
    \E w \in Procs :
        \/ update_exchange_rate(w)
        \/ update_market_rates(w)
        \/ update_exchange_rate_select(w)
        \/ update_exchange_rate_write(w)

\* TokenSwapperService maintaining its rates
SpecRates == Init /\ [][NextRates]_vars

\* ===================================================== settlement adapter
\* BlockchainService handlers (blockchain_integration.rs)

\* <<player, currency>>
WithdrawInputs ==
    { <<"p1", "Solana">>, <<"p1", "Crystals">>, <<"p2", "Solana">>,
      <<"p3", "Solana">> }

\* <<player, amount>>
MintInputs == { <<"p1", Hundred>>, <<"p2", Hundred>>, <<"p1", 0 - Hundred>> }

\* <<player, currency, transaction_hash>>
DepositInputs ==
    { <<"p1", "Solana", h>> : h \in ExternalSigs \cup {BadHash} }

\* transaction_hash of a record an outside caller stores as pending
RecordInputs == ExternalSigs \cup {BadHash}

ledgerRest == <<wallets, transactions, swap_transactions, exchange_rates,
                tax_settings, solana_client, pc, loc, result, delta,
                expected, ops>>

ledgerState == <<ledgerRest, call>>

monitorVars == <<mpc, mloc>>

adapterConfig == <<blockchain_wallets, uuids, now, treasury_wallet_keypair, accountVars>>

\* what a handler of the adapter returns: "ok", or the kind of its error
AdapterResults ==
    {"ok", "WalletNotFound", "WalletNotVerified", "System", "SolanaClient",
     "Database", "TransactionFailed"}

\* what find_token_account answers: the account, a client error, or no
\* account for the mint
TokenAccountAnswers == {"found", "SolanaClient", "System"}

\* what find_or_create_token_account answers: the account that exists, the
\* account it created with a transaction of its own, or a client error
AllAccounts == {"found", "created", "SolanaClient"}

\* the same for recipients whose token account exists
ChainAccounts == {"found", "SolanaClient"}

\* an outside caller enters a handler of the adapter (while the table has
\* room for the row the handler may insert)
Enter == Len(blockchain_transactions) < MaxRows

\* the next n signatures send_transaction returns, their transactions
\* confirmed by the cluster
Confirm(n) ==
    /\ submitted + n <= MaxRows + MaxFaults
    /\ submitted' = submitted + n
    /\ chain' = [h \in DOMAIN chain |->
                    IF h \in {Hash("service", submitted + i) : i \in 1..n}
                    THEN "success" ELSE chain[h]]

\* record_transaction: the INSERT, or its failure with Err(Database)
Record(player, c, type, amount, h, status, res) ==
    \/ /\ res = "ok"
       /\ blockchain_transactions' =
              Append(blockchain_transactions,
                     NewBlockchainTransaction(Len(blockchain_transactions) + 1,
                                              player, c, type, amount, h, status))
       /\ UNCHANGED faults
    \/ /\ res = "Database"
       /\ Fault
       /\ UNCHANGED blockchain_transactions

\* the handler returns Err(kind) after n of its transactions were confirmed,
\* and before it stored anything
Abort(n, kind, res) ==
    /\ res = kind
    /\ kind # "ok"
    /\ Confirm(n)
    /\ UNCHANGED <<blockchain_transactions, faults>>

\* the handler returns Err(kind) before it sent or stored anything
Reject(kind, res) == Abort(0, kind, res)

\* a handler that stores a failed record when the chain client fails
SendAndRecord_failed_row(n, player, c, type, amount, res) ==
    \/ /\ res = "SolanaClient"
       /\ Confirm(n - 1)
       /\ blockchain_transactions' =
              Append(blockchain_transactions,
                     NewBlockchainTransaction(Len(blockchain_transactions) + 1,
                                              player, c, type, amount, BadHash,
                                              "failed"))
       /\ UNCHANGED faults
    \/ /\ Confirm(n)
       /\ Record(player, c, type, amount, Hash("service", submitted + n),
                 "pending", res)

\* send_transaction (send_and_confirm_transaction) for the n-th transaction
\* of the call, then record_transaction with status Pending: the chain client
\* fails, or it returns the signature of a transaction the cluster confirmed
SendAndRecord(n, player, c, type, amount, res) ==
    \/ Abort(n - 1, "SolanaClient", res)
    \/ /\ Confirm(n)
       /\ Record(player, c, type, amount, Hash("service", submitted + n),
                 "pending", res)

\* how many transactions a call sends when find_or_create_token_account
\* gave this answer
Sent(recipient) == IF recipient = "created" THEN 2 ELSE 1

\* get_wallet without the is_verified test
wallet_check_exists(player) ==
    IF player \notin DOMAIN blockchain_wallets THEN "WalletNotFound" ELSE "ok"

\* get_wallet and the is_verified test
wallet_check(player) ==
    IF player \notin DOMAIN blockchain_wallets THEN "WalletNotFound"
    ELSE IF ~blockchain_wallets[player].is_verified THEN "WalletNotVerified"
    ELSE "ok"

\* (amount * Decimal::new(1_000_000_000, 0)).to_u64() is Some
to_u64_ok(amount) == amount >= 0

\* process_withdrawal(player, c, amount) returns res, the recipient's token
\* account being looked up with one of the answers in accounts
process_withdrawal_returns(player, c, amount, accounts, res) ==
    IF wallet_check(player) # "ok"
    THEN Reject(wallet_check(player), res)
    ELSE IF ~treasury_wallet_keypair
    THEN Reject("System", res)
    ELSE IF c \notin {"Solana", "Exons"}
    THEN Reject("System", res)
    ELSE IF ~to_u64_ok(amount)
    THEN Reject("System", res)
    ELSE IF c = "Solana"
    THEN SendAndRecord(1, player, c, "withdrawal", amount, res)
    ELSE \E treasury \in TokenAccountAnswers, recipient \in accounts :
            IF treasury # "found"
            THEN Reject(treasury, res)
            ELSE IF recipient = "SolanaClient"
            THEN Reject("SolanaClient", res)
            ELSE SendAndRecord(Sent(recipient), player, c, "withdrawal",
                               amount, res)

\* mint_exons(player, amount) returns res
mint_exons_returns(player, amount, accounts, res) ==
    IF ~treasury_wallet_keypair
    THEN Reject("System", res)
    ELSE IF wallet_check(player) # "ok"
    THEN Reject(wallet_check(player), res)
    ELSE IF ~to_u64_ok(amount)
    THEN Reject("System", res)
    ELSE \E recipient \in accounts :
            IF recipient = "SolanaClient"
            THEN Reject("SolanaClient", res)
            ELSE SendAndRecord(Sent(recipient), player, "Exons", "mint",
                               amount, res)

\* burn_exons(player, amount) returns res
burn_exons_returns(player, amount, res) ==
    IF wallet_check(player) # "ok"
    THEN Reject(wallet_check(player), res)
    ELSE IF ~to_u64_ok(amount)
    THEN Reject("System", res)
    ELSE \E account \in TokenAccountAnswers :
            IF account # "found"
            THEN Reject(account, res)
            ELSE IF ~treasury_wallet_keypair
            THEN Reject("System", res)
            ELSE SendAndRecord(1, player, "Exons", "burn", amount, res)

\* verify_blockchain_transaction(transaction_hash, c) returns Ok(true), or
\* the kind of its error
verify_blockchain_transaction(h, c, res) ==
    IF ~parses(h)
    THEN res = "System"
    ELSE \/ res = "SolanaClient"
         \/ res = IF get_signature_status(chain, h) = "success"
                  THEN "ok" ELSE "TransactionFailed"

\* process_deposit(player, c, amount, transaction_hash) returns res:
\* verify_blockchain_transaction, then record_transaction with status
\* Confirmed
process_deposit_returns(player, c, amount, h, res) ==
    \E verified \in AdapterResults :
        /\ verify_blockchain_transaction(h, c, verified)
        /\ IF verified # "ok"
           THEN Reject(verified, res)
           ELSE /\ Record(player, c, "deposit", amount, h, "confirmed", res)
                /\ UNCHANGED <<chain, submitted>>

\* the results with which a call changes the table or the fault count; with
\* any other result a call whose token accounts exist leaves every variable as
\* it was, a step the specifications allow anyway
Stored == {"ok", "Database"}

process_withdrawal ==
    /\ Enter
    /\ \E in \in WithdrawInputs, res \in Stored :
          process_withdrawal_returns(in[1], in[2], Hundred, ChainAccounts, res)
    /\ UNCHANGED <<ledgerState, monitorVars, adapterConfig, recon>>

mint_exons ==
    /\ Enter
    /\ \E in \in MintInputs, res \in Stored :
          mint_exons_returns(in[1], in[2], ChainAccounts, res)
    /\ UNCHANGED <<ledgerState, monitorVars, adapterConfig, recon>>

burn_exons ==
    /\ Enter
    /\ \E in \in MintInputs, res \in Stored :
          burn_exons_returns(in[1], in[2], res)
    /\ UNCHANGED <<ledgerState, monitorVars, adapterConfig, recon>>

process_deposit ==
    /\ Enter
    /\ \E in \in DepositInputs, res \in Stored :
          process_deposit_returns(in[1], in[2], Hundred, in[3], res)
    /\ UNCHANGED <<ledgerState, monitorVars, adapterConfig, recon>>

\* record_transaction, entered by an outside caller with a pending record
record_transaction ==
    /\ Enter
    /\ \E h \in RecordInputs, res \in Stored :
          Record("p1", "Solana", "withdrawal", Hundred, h, "pending", res)
    /\ UNCHANGED <<chain, submitted, ledgerState, monitorVars, adapterConfig,
                   recon>>

\* the cluster finalizes a transfer that was made outside the service
chain_finalize ==
    /\ \E h \in ExternalSigs, outcome \in {"success", "failure"} :
          /\ chain[h] = "unknown"
          /\ chain' = [chain EXCEPT ![h] = outcome]
    /\ UNCHANGED <<blockchain_transactions, submitted, faults,
                   ledgerState, monitorVars, adapterConfig, recon>>

\* ------------------------------------------- monitor_pending_transactions
\* the loop of task m moves on to the next fetched row, or the pass returns
Advance(m, ml) ==
    IF Len(ml.list) <= 1
    THEN /\ mpc' = [mpc EXCEPT ![m] = "idle"]
         /\ mloc' = [mloc EXCEPT ![m] = MonInit]
    ELSE /\ mpc' = [mpc EXCEPT ![m] = "check"]
         /\ mloc' = [mloc EXCEPT ![m] = [MonInit EXCEPT !.list = Tail(ml.list)]]

\* task m starts a pass: the SELECT of the pending rows
monitor_pending_transactions(m) ==
    /\ mpc[m] = "idle"
    /\ LET ml == [MonInit EXCEPT
                     !.list = pending_transactions(blockchain_transactions, 1)]
       IN  IF ml.list = <<>>
           THEN UNCHANGED <<mpc, mloc>>
           ELSE /\ mpc' = [mpc EXCEPT ![m] = "check"]
                /\ mloc' = [mloc EXCEPT ![m] = ml]
    /\ UNCHANGED <<blockchain_transactions, chain, submitted, faults,
                   ledgerState, adapterConfig>>

\* the outcome of the parse and of the status query for the row in hand
Decide(m, ml, parsed, obs) ==
    IF status_for(parsed, obs) = "skip"
    THEN Advance(m, ml)
    ELSE /\ mpc' = [mpc EXCEPT ![m] = "update"]
         /\ mloc' = [mloc EXCEPT ![m] =
                        [ml EXCEPT !.obs = obs, !.write = status_for(parsed, obs)]]

\* task m parses the hash of the next fetched row and, if it is a signature,
\* asks the chain client for its status
monitor_check(m) ==
    /\ mpc[m] = "check"
    /\ LET ml == mloc[m]
           h  == blockchain_transactions[Head(ml.list)].transaction_hash
       IN  IF ~parses(h)
           THEN /\ Decide(m, ml, FALSE, "none")
                /\ UNCHANGED faults
           ELSE \/ /\ Decide(m, ml, TRUE, get_signature_status(chain, h))
                   /\ UNCHANGED faults
                \/ /\ Fault
                   /\ Decide(m, ml, TRUE, "error")
    /\ UNCHANGED <<blockchain_transactions, chain, submitted,
                   ledgerState, adapterConfig>>

\* task m runs update_transaction_status for the row in hand; a storage
\* failure ends the pass with Err
monitor_update(m) ==
    /\ mpc[m] = "update"
    /\ \/ /\ blockchain_transactions' =
                 update_transaction_status(blockchain_transactions,
                                           Head(mloc[m].list), mloc[m].write)
          /\ Advance(m, mloc[m])
          /\ UNCHANGED faults
       \/ /\ Fault
          /\ mpc' = [mpc EXCEPT ![m] = "idle"]
          /\ mloc' = [mloc EXCEPT ![m] = MonInit]
          /\ UNCHANGED blockchain_transactions
    /\ UNCHANGED <<chain, submitted, ledgerState, adapterConfig>>

NextChain ==
    \/ process_withdrawal
    \/ mint_exons
    \/ burn_exons
    \/ process_deposit
    \/ record_transaction
    \/ chain_finalize
    \/ \E m \in Monitors :
          \/ monitor_pending_transactions(m) /\ UNCHANGED recon
          \/ monitor_check(m) /\ UNCHANGED recon
          \/ monitor_update(m) /\ UNCHANGED recon

SpecChain == InitChain /\ [][NextChain]_vars

\* ------------------------------------------------ the reconciliation tick
\* a step of monitor task m
MonitorTick(m) ==
    /\ \/ monitor_pending_transactions(m)
       \/ monitor_check(m)
       \/ monitor_update(m)
    /\ UNCHANGED recon

NextMonitor ==
    \/ process_withdrawal
    \/ mint_exons
    \/ burn_exons
    \/ process_deposit
    \/ record_transaction
    \/ chain_finalize
    \/ MonitorTick("m1")

\* BlockchainService with one task that calls monitor_pending_transactions
\* again and again: the task does not stay for ever in front of a step it can
\* take
SpecMonitor == InitChain /\ [][NextMonitor]_vars /\ WF_vars(MonitorTick("m1"))

\* ------------------------------------------------- two passes in succession
\* One task runs monitor_pending_transactions twice in succession: handlers
\* fill the table before the first pass starts, nothing but the two passes
\* writes it from then on, and the cluster may finalize a transfer at any time.

\* the bookkeeping of a step of task m
Reconcile(m) ==
    LET starting == mpc[m] = "idle"
        ending == mpc'[m] = "idle"
        errored == faults' # faults
        rewriting == /\ mpc[m] = "update"
                     /\ ~errored
                     /\ blockchain_transactions[Head(mloc[m].list)].status # "pending"
        r1 == IF starting /\ recon.phase = "setup"
              THEN [recon EXCEPT !.phase = "run1", !.chain0 = chain]
              ELSE IF starting
              THEN [recon EXCEPT !.phase = "run2"]
              ELSE recon
        r2 == [r1 EXCEPT
                  !.clean1 = @ /\ ~(errored /\ r1.phase = "run1"),
                  !.rewrites = @ + (IF rewriting /\ r1.phase = "run2" THEN 1 ELSE 0)]
    IN  recon' = IF ~ending THEN r2
                 ELSE IF r2.phase = "run1"
                 THEN [r2 EXCEPT !.phase = "between",
                                 !.rows1 = blockchain_transactions',
                                 !.chain1 = chain]
                 ELSE [r2 EXCEPT !.phase = "done", !.chain2 = chain]

NextReconcile ==
    \/ recon.phase = "setup" /\ process_withdrawal
    \/ recon.phase = "setup" /\ mint_exons
    \/ recon.phase = "setup" /\ burn_exons
    \/ recon.phase = "setup" /\ process_deposit
    \/ recon.phase = "setup" /\ record_transaction
    \/ recon.phase # "done" /\ chain_finalize
    \/ /\ recon.phase \in {"setup", "between"}
       /\ monitor_pending_transactions("m1")
       /\ Reconcile("m1")
    \/ monitor_check("m1") /\ Reconcile("m1")
    \/ monitor_update("m1") /\ Reconcile("m1")

SpecReconcile == InitReconcile /\ [][NextReconcile]_vars

\* ------------------------------------------------------- handler outcomes
\* The handlers of the adapter called one after another, each call leaving in
\* `call` its arguments, what it returned, and the table and the number of
\* submitted transactions it found.

\* <<player, currency, amount>>
WithdrawCalls ==
    (Players \X {"Solana", "Exons", "Crystals"} \X {Hundred})
        \cup {<<"p1", "Solana", 0 - Hundred>>}

\* <<player, amount>>
MintCalls == MintInputs \cup {<<"p3", Hundred>>}

\* <<player, currency, amount, transaction_hash>>
DepositCalls ==
    {"p1"} \X {"Solana", "Exons"} \X {Hundred, 2 * Hundred}
        \X (ExternalSigs \cup {BadHash})

\* the calls that take no transaction_hash
NoSignature == Hash("none", 0)

AdapterCall(fn, player, c, amount, h, res) ==
    [fn |-> fn, player |-> player, currency |-> c, amount |-> amount,
     hash |-> h, res |-> res, rows |-> blockchain_transactions,
     submitted |-> submitted]

adapterFrame == <<ledgerRest, monitorVars, adapterConfig, recon>>

process_withdrawal_call ==
    /\ Enter
    /\ \E in \in WithdrawCalls, res \in AdapterResults :
          /\ process_withdrawal_returns(in[1], in[2], in[3], AllAccounts, res)
          /\ call' = AdapterCall("process_withdrawal", in[1], in[2], in[3],
                                 NoSignature, res)
    /\ UNCHANGED adapterFrame

mint_exons_call ==
    /\ Enter
    /\ \E in \in MintCalls, res \in AdapterResults :
          /\ mint_exons_returns(in[1], in[2], AllAccounts, res)
          /\ call' = AdapterCall("mint_exons", in[1], "Exons", in[2], NoSignature, res)
    /\ UNCHANGED adapterFrame

burn_exons_call ==
    /\ Enter
    /\ \E in \in MintCalls, res \in AdapterResults :
          /\ burn_exons_returns(in[1], in[2], res)
          /\ call' = AdapterCall("burn_exons", in[1], "Exons", in[2], NoSignature, res)
    /\ UNCHANGED adapterFrame

process_deposit_call ==
    /\ Enter
    /\ \E in \in DepositCalls, res \in AdapterResults :
          /\ process_deposit_returns(in[1], in[2], in[3], in[4], res)
          /\ call' = AdapterCall("process_deposit", in[1], in[2], in[3],
                                 in[4], res)
    /\ UNCHANGED adapterFrame

\* BlockchainService answering one call at a time
InitAdapter == InitChain

NextAdapter ==
    \/ process_withdrawal_call
    \/ mint_exons_call
    \/ burn_exons_call
    \/ process_deposit_call
    \/ chain_finalize

SpecAdapter == InitAdapter /\ [][NextAdapter]_vars

\* --------------------------------------------------------- wallet linking
\* connect_wallet and verify_wallet of BlockchainService, called by the
\* workers; every .await on the pool is one step.  Two connect_wallet calls
\* for the same player are not run at the same time.

\* an address Pubkey::from_str rejects
BadAddress == "not-base58"

\* Pubkey::from_str(solana_address) is Ok
parses_pubkey(address) == address # BadAddress

\* player and address of a connect_wallet call: p3 takes the address of p2,
\* p3 and p2 take the same free address, p1 connects its own address again,
\* p1 gives an address that does not parse
ConnectInputs ==
    {<<"p3", "p2">>, <<"p3", "a3">>, <<"p2", "a3">>, <<"p1", "p1">>,
     <<"p1", BadAddress>>}

\* a signature: who signed, and the nonce that was signed
Sign(address, nonce) == [signer |-> address, message |-> nonce]

\* a signature made by nobody the service knows, over nothing
BadSignature == Sign("nobody", NoNonce)

\* the signatures a verify_wallet call for the player is tried with: the
\* one over the stored nonce by the stored address, and BadSignature
VerifySignatures(player) ==
    {BadSignature} \cup
    (IF player \in DOMAIN blockchain_wallets
     THEN {Sign(blockchain_wallets[player].solana_address,
                blockchain_wallets[player].verification_nonce)}
     ELSE {})

\* arguments and locals of a wallet call: the nonce connect_wallet generated,
\* what its second SELECT found, and whether the call has written its row
WalletCallInit ==
    [fn |-> "none", player |-> "p1", address |-> "p1",
     signature |-> BadSignature, nonce |-> NoNonce, existing |-> FALSE,
     wrote |-> FALSE]

\* SELECT player_id ... WHERE solana_address = $1 AND player_id != $2
existing_wallet(rows, address, player) ==
    {p \in DOMAIN rows : rows[p].solana_address = address /\ p # player}

\* the row both the UPDATE and the INSERT of connect_wallet leave
connected_wallet(address, nonce, t) ==
    [solana_address |-> address, is_verified |-> FALSE, connected_at |-> t,
     last_verified_at |-> NoTime, verification_nonce |-> nonce]

\* the UPDATE of verify_wallet without verification_nonce = NULL
verified_wallet_keeps_nonce(wallet, t) ==
    [wallet EXCEPT !.is_verified = TRUE, !.last_verified_at = t]

\* the row the UPDATE of verify_wallet leaves
verified_wallet(wallet, t) ==
    [wallet EXCEPT !.is_verified = TRUE, !.last_verified_at = t,
                   !.verification_nonce = NoNonce]

\* verify_wallet without its early return
already_verified_never(wallet) == FALSE

\* if wallet.is_verified { return Ok(wallet) }
already_verified(wallet) == wallet.is_verified

\* let is_valid = true; // Placeholder for actual verification
is_valid(signature, wallet) == TRUE

\* what the wallet calls leave alone
walletFrame ==
    <<wallets, transactions, swap_transactions, exchange_rates, tax_settings,
      solana_client, loc, delta, expected, treasury_wallet_keypair, accountVars,
      blockchain_transactions, chain, submitted, mpc, mloc, recon>>

WalletStep(w, label) ==
    /\ pc' = [pc EXCEPT ![w] = label]
    /\ UNCHANGED result

WalletReturn(w, r) ==
    /\ pc' = [pc EXCEPT ![w] = "idle"]
    /\ result' = [result EXCEPT ![w] = r]

\* the call enters: the address is parsed, the first SELECT is sent
connect_wallet(w) ==
    /\ pc[w] = "idle"
    /\ ops < MaxOps
    /\ ops' = ops + 1
    /\ \E in \in ConnectInputs :
          /\ \A v \in Procs \ {w} :
                ~(pc[v] # "idle" /\ call[v].fn = "connect_wallet"
                  /\ call[v].player = in[1])
          /\ call' = [call EXCEPT ![w] =
                         [WalletCallInit EXCEPT !.fn = "connect_wallet",
                                                !.player = in[1],
                                                !.address = in[2]]]
          /\ IF parses_pubkey(in[2])
             THEN /\ pc' = [pc EXCEPT ![w] = "connect_check"]
                  /\ result' = [result EXCEPT ![w] = NoResult]
             ELSE WalletReturn(w, Err("InvalidWalletAddress"))
    /\ UNCHANGED <<blockchain_wallets, uuids, now, faults, walletFrame>>

\* the first SELECT answers: Unauthorized if another player holds the
\* address, else the nonce is generated and the second SELECT is sent
connect_wallet_check(w) ==
    /\ pc[w] = "connect_check"
    /\ IF existing_wallet(blockchain_wallets, call[w].address,
                          call[w].player) # {}
       THEN /\ WalletReturn(w, Err("Unauthorized"))
            /\ UNCHANGED <<uuids, call>>
       ELSE /\ uuids' = uuids + 1
            /\ call' = [call EXCEPT ![w].nonce = new_nonce(uuids)]
            /\ WalletStep(w, "connect_select")
    /\ UNCHANGED <<blockchain_wallets, now, ops, faults, walletFrame>>

\* the second SELECT answers, the UPDATE or the INSERT is sent
connect_wallet_select(w) ==
    /\ pc[w] = "connect_select"
    /\ call' = [call EXCEPT ![w].existing =
                   (call[w].player \in DOMAIN blockchain_wallets)]
    /\ WalletStep(w, "connect_write")
    /\ UNCHANGED <<blockchain_wallets, uuids, now, ops, faults, walletFrame>>

\* the UPDATE or the INSERT runs, the call returns the row
connect_wallet_write(w) ==
    /\ pc[w] = "connect_write"
    /\ call[w].existing = (call[w].player \in DOMAIN blockchain_wallets)
    /\ now' = now + 1
    /\ blockchain_wallets' =
          [p \in DOMAIN blockchain_wallets \cup {call[w].player} |->
              IF p = call[w].player
              THEN connected_wallet(call[w].address, call[w].nonce, now + 1)
              ELSE blockchain_wallets[p]]
    /\ call' = [call EXCEPT ![w].wrote = TRUE]
    /\ WalletReturn(w, Ok(NoId))
    /\ UNCHANGED <<uuids, ops, faults, walletFrame>>

\* the call enters, get_wallet's SELECT is sent
verify_wallet(w) ==
    /\ pc[w] = "idle"
    /\ ops < MaxOps
    /\ ops' = ops + 1
    /\ \E player \in Players : \E signature \in VerifySignatures(player) :
          call' = [call EXCEPT ![w] =
                      [WalletCallInit EXCEPT !.fn = "verify_wallet",
                                             !.player = player,
                                             !.signature = signature]]
    /\ pc' = [pc EXCEPT ![w] = "verify_get"]
    /\ result' = [result EXCEPT ![w] = NoResult]
    /\ UNCHANGED <<blockchain_wallets, uuids, now, faults, walletFrame>>

\* get_wallet answers; the tests of verify_wallet up to its UPDATE
verify_wallet_get(w) ==
    /\ pc[w] = "verify_get"
    /\ LET player == call[w].player
       IN  IF player \notin DOMAIN blockchain_wallets
           THEN WalletReturn(w, Err("WalletNotFound"))
           ELSE IF already_verified(blockchain_wallets[player])
           THEN WalletReturn(w, Ok(NoId))
           ELSE IF blockchain_wallets[player].verification_nonce = NoNonce
           THEN WalletReturn(w, Err("System"))
           ELSE IF ~is_valid(call[w].signature, blockchain_wallets[player])
           THEN WalletReturn(w, Err("Unauthorized"))
           ELSE WalletStep(w, "verify_write")
    /\ UNCHANGED <<blockchain_wallets, uuids, now, ops, faults, call,
                   walletFrame>>

\* the UPDATE runs, the call returns the row
verify_wallet_write(w) ==
    /\ pc[w] = "verify_write"
    /\ call[w].player \in DOMAIN blockchain_wallets
    /\ now' = now + 1
    /\ blockchain_wallets' =
          [blockchain_wallets EXCEPT ![call[w].player] =
              verified_wallet(@, now + 1)]
    /\ call' = [call EXCEPT ![w].wrote = TRUE]
    /\ WalletReturn(w, Ok(NoId))
    /\ UNCHANGED <<uuids, ops, faults, walletFrame>>

\* a statement of a wallet call fails: .await? returns Err(Database)
wallet_fault(w) ==
    /\ pc[w] \in {"connect_check", "connect_select", "connect_write",
                  "verify_get", "verify_write"}
    /\ Fault
    /\ WalletReturn(w, Err("Database"))
    /\ UNCHANGED <<blockchain_wallets, uuids, now, ops, call, walletFrame>>

\* BlockchainService serving wallet calls
InitWallet ==
    /\ LedgerStart
    /\ tax_settings = [c \in {"Crystals"} |-> TaxRow(Dec(10, 0), Dec(5, 0), "adminbb")]
    /\ solana_client = FALSE
    /\ ChainStart
    /\ treasury_wallet_keypair = FALSE
    /\ recon = NoRecon
    /\ call = [w \in Procs |-> WalletCallInit]

NextWallet ==
    \E w \in Procs :
        \/ connect_wallet(w)
        \/ connect_wallet_check(w)
        \/ connect_wallet_select(w)
        \/ connect_wallet_write(w)
        \/ verify_wallet(w)
        \/ verify_wallet_get(w)
        \/ verify_wallet_write(w)
        \/ wallet_fault(w)

SpecWallet == InitWallet /\ [][NextWallet]_vars

\* ======================================================= player registration
\* PlayerService::register_player (player_account.rs) and the create_wallet
\* it calls (currency_system.rs), on two concurrent workers.  The four INSERTs
\* of register_player run on its transaction: their rows are in call[w].tx
\* until the commit and are gone when the call returns early.  create_wallet
\* runs on the pool: its row is stored when its INSERT returns.

\* <<username, email, password>>
RegisterInputs ==
    { <<"neo", Email("n"), "password1">>,
      <<"neo", Email("o"), "password1">>,
      <<"trinity", Email("n"), "password1">>,
      <<"al", Email("a"), "password1">>,
      <<"morpheus", <<"m", "t">>, "password1">>,
      <<"cypher", Email("c"), "short">> }

CreateWalletInputs == {"p1", "p3"}

\* email.contains('@')
contains_at(email) == \E i \in DOMAIN email : email[i] = "@"

\* arguments and locals of a call: the id of the player row, the tables the
\* transaction has inserted into, and what create_wallet's SELECT found
RegisterCallInit ==
    [fn |-> "none", username |-> "none", email |-> <<>>, player |-> NoPlayer,
     tx |-> {}, existing |-> FALSE]

\* VALUES ($1, 0, 0, 0, NOW())
NewWallet == [c \in Currencies |-> 0]

\* what the account calls leave alone
registerFrame ==
    <<transactions, swap_transactions, exchange_rates, tax_settings, solana_client,
      loc, delta, expected, blockchain_wallets, now, treasury_wallet_keypair,
      currency_service, blockchain_transactions, chain, submitted, mpc, mloc, recon>>

\* register_player enters: the three input checks, then the SELECT is sent
register_player(w) ==
    /\ pc[w] = "idle"
    /\ ops < MaxOps
    /\ ops' = ops + 1
    /\ \E in \in RegisterInputs :
          /\ call' = [call EXCEPT ![w] =
                         [RegisterCallInit EXCEPT !.fn = "register_player",
                                                  !.username = in[1], !.email = in[2]]]
          /\ IF Len(in[1]) < 3 \/ ~contains_at(in[2]) \/ Len(in[3]) < 8
             THEN WalletReturn(w, Err("System"))
             ELSE WalletStep(w, "register_check")
    /\ UNCHANGED <<player_tables, wallets, uuids, faults, registerFrame>>

\* SELECT ... WHERE username = $1 OR email = $2 answers with one row or none;
\* then bcrypt::hash and db_pool.begin()
register_check(w) ==
    /\ pc[w] = "register_check"
    /\ LET same == { r \in player_tables.players :
                        r.username = call[w].username \/ r.email = call[w].email }
       IN  \/ /\ same = {}
              /\ WalletStep(w, "insert_players")
           \/ \E existing \in same :
                 IF existing.username = call[w].username
                 THEN WalletReturn(w, Err("UsernameExists"))
                 ELSE WalletReturn(w, Err("EmailExists"))
    /\ UNCHANGED <<player_tables, wallets, uuids, ops, faults, call, registerFrame>>

\* INSERT INTO auth.players (id, ..) VALUES (uuid_generate_v4(), ..) on tx
register_insert_player(w) ==
    /\ pc[w] = "insert_players"
    /\ uuids <= Len(NewPlayers)
    /\ uuids' = uuids + 1
    /\ call' = [call EXCEPT ![w].player = NewPlayers[uuids], ![w].tx = {"players"}]
    /\ WalletStep(w, "insert_player_profiles")
    /\ UNCHANGED <<player_tables, wallets, ops, faults, registerFrame>>

\* the INSERTs into game.player_profiles, game.player_stats and
\* game.inventories on tx, then the branch on self.currency_service
register_insert_rows(w) ==
    /\ \/ /\ pc[w] = "insert_player_profiles"
          /\ call' = [call EXCEPT ![w].tx = @ \cup {"player_profiles"}]
          /\ WalletStep(w, "insert_player_stats")
       \/ /\ pc[w] = "insert_player_stats"
          /\ call' = [call EXCEPT ![w].tx = @ \cup {"player_stats"}]
          /\ WalletStep(w, "insert_inventories")
       \/ /\ pc[w] = "insert_inventories"
          /\ call' = [call EXCEPT ![w].tx = @ \cup {"inventories"}]
          /\ IF currency_service THEN WalletStep(w, "create_wallet_select")
             ELSE WalletStep(w, "register_commit")
    /\ UNCHANGED <<player_tables, wallets, uuids, ops, faults, registerFrame>>

\* create_wallet, entered by an outside caller: its SELECT is sent
create_wallet(w) ==
    /\ pc[w] = "idle"
    /\ ops < MaxOps
    /\ ops' = ops + 1
    /\ \E player \in CreateWalletInputs :
          call' = [call EXCEPT ![w] =
                      [RegisterCallInit EXCEPT !.fn = "create_wallet", !.player = player]]
    /\ WalletStep(w, "create_wallet_select")
    /\ UNCHANGED <<player_tables, wallets, uuids, faults, registerFrame>>

\* create_wallet returned Ok(wallet) to its caller
wallet_returned(w) ==
    IF call[w].fn = "register_player" THEN WalletStep(w, "register_commit")
    ELSE WalletReturn(w, Ok(NoId))

\* create_wallet: SELECT player_id FROM game.wallets answers; a row found is
\* read by get_wallet and returned, else the INSERT is sent
create_wallet_select(w) ==
    /\ pc[w] = "create_wallet_select"
    /\ IF player_tables.wallets[call[w].player] > 0
       THEN /\ call' = [call EXCEPT ![w].existing = TRUE]
            /\ wallet_returned(w)
       ELSE /\ WalletStep(w, "create_wallet_insert")
            /\ UNCHANGED call
    /\ UNCHANGED <<player_tables, wallets, uuids, ops, faults, registerFrame>>

\* create_wallet: INSERT INTO game.wallets .. VALUES ($1, 0, 0, 0, NOW()) on
\* the pool
create_wallet_insert(w) ==
    /\ pc[w] = "create_wallet_insert"
    /\ LET player == call[w].player IN
         /\ player_tables' = [player_tables EXCEPT !.wallets[player] = @ + 1]
         /\ wallets' = IF player \in DOMAIN wallets THEN wallets
                       ELSE [p \in DOMAIN wallets \cup {player} |->
                                IF p = player THEN NewWallet ELSE wallets[p]]
    /\ wallet_returned(w)
    /\ UNCHANGED <<uuids, ops, faults, call, registerFrame>>

\* tx.commit(): the rows of the transaction are stored
register_commit(w) ==
    /\ pc[w] = "register_commit"
    /\ LET c == call[w] IN
         player_tables' =
            [player_tables EXCEPT
                !.players = @ \cup { [id |-> c.player, username |-> c.username,
                                      email |-> c.email] },
                !.player_profiles = @ \cup {c.player},
                !.player_stats = @ \cup {c.player},
                !.inventories = @ \cup {c.player}]
    /\ call' = [call EXCEPT ![w].tx = {}]
    /\ WalletReturn(w, Ok(NoId))
    /\ UNCHANGED <<wallets, uuids, ops, faults, registerFrame>>

\* a statement of the call, or its commit, fails: `?` returns the error and
\* drops tx, which rolls back what the transaction inserted; create_wallet's
\* error reaches register_player's caller as System
register_fault(w) ==
    /\ pc[w] \in {"register_check", "insert_players", "insert_player_profiles",
                  "insert_player_stats", "insert_inventories", "create_wallet_select",
                  "create_wallet_insert", "register_commit"}
    /\ Fault
    /\ call' = [call EXCEPT ![w].tx = {}]
    /\ IF call[w].fn = "register_player"
          /\ pc[w] \in {"create_wallet_select", "create_wallet_insert"}
       THEN WalletReturn(w, Err("System"))
       ELSE WalletReturn(w, Err("Database"))
    /\ UNCHANGED <<player_tables, wallets, uuids, ops, registerFrame>>

\* PlayerService and CurrencyService serving account calls
InitRegister ==
    /\ LedgerStart
    /\ tax_settings = [c \in {"Crystals"} |-> TaxRow(Dec(10, 0), Dec(5, 0), "adminbb")]
    /\ solana_client = FALSE
    /\ \E service \in BOOLEAN : ChainStartWith(service)
    /\ treasury_wallet_keypair = FALSE
    /\ recon = NoRecon
    /\ call = [w \in Procs |-> RegisterCallInit]

NextRegister ==
    \E w \in Procs :
        \/ register_player(w)
        \/ register_check(w)
        \/ register_insert_player(w)
        \/ register_insert_rows(w)
        \/ create_wallet(w)
        \/ create_wallet_select(w)
        \/ create_wallet_insert(w)
        \/ register_commit(w)
        \/ register_fault(w)

SpecRegister == InitRegister /\ [][NextRegister]_vars

\* ------------------------------------------------------------ ledger claims
\* the balance changes a completed transfer is to make: sender -(amount + tax),
\* recipient +amount, tax recipient +tax
TransferDelta(l) ==
    LET admin == player_by_username(get_tax_settings(tax_settings, l.cur).admin_account)
    IN  [k \in Keys |->
            (IF k = <<l.player, l.cur>> THEN 0 - l.total ELSE 0)
          + (IF k = <<l.to, l.cur>> THEN l.amount ELSE 0)
          + (IF l.tax > 0 /\ k = <<admin, l.cur>> THEN l.tax ELSE 0)]

\* the balance changes an executed swap is to make: -from_amount, +to_amount
SwapDelta(l) ==
    [k \in Keys |->
        (IF k = <<l.player, l.cur>> THEN 0 - l.amount ELSE 0)
      + (IF k = <<l.player, l.cur2>> THEN l.to_amount ELSE 0)]

RECURSIVE SumOver(_, _)
SumOver(f, S) ==
    IF S = {} THEN 0
    ELSE LET k == CHOOSE x \in S : TRUE IN f[k] + SumOver(f, S \ {k})

Returned(w, op) == pc[w] = "done" /\ loc[w].op = op

InFlight(w, op) == pc[w] \notin {"idle", "done"} /\ loc[w].op = op

\* C1: under every interleaving of concurrent debits, transfers and swaps on
\* the same wallet, no balance of any wallet is ever negative.
C1_NoNegativeBalance ==
    \A p \in DOMAIN wallets : \A c \in Currencies : wallets[p][c] >= 0

\* two handlers are both past the sufficiency check of the same balance
\* column, each about to write the balance it computed from its own read
C1_Witness ==
    \E w1, w2 \in Procs :
        /\ w1 # w2
        /\ pc[w1] = "remove_currency_update" /\ loc[w1].op = "transfer_currency"
        /\ pc[w2] = "remove_currency_update" /\ loc[w2].op = "swap_currency"
        /\ loc[w1].who = loc[w2].who /\ loc[w1].wcur = loc[w2].wcur

\* C2: a transfer_currency call that returns a completed transaction has
\* lowered the sender by amount + tax, raised the recipient by amount and the
\* tax recipient by tax, the balances of the currency summing to what they did.
C2_TransferConserves ==
    \A w \in Procs :
        (Returned(w, "transfer_currency") /\ result[w].status = "ok")
            => /\ delta[w] = TransferDelta(loc[w])
               /\ SumOver(delta[w], Keys) = 0

\* C3: once all concurrent add_currency and remove_currency calls have
\* returned, each balance is the initial one plus the successful credits minus
\* the successful debits.
C3_NoLostUpdate ==
    (\A w \in Procs : pc[w] \in {"idle", "done"})
        => \A p \in DOMAIN wallets : \A c \in Currencies :
               wallets[p][c] = expected[<<p, c>>]

C6_NoSwapLeftPending ==
    \A i \in 1..Len(swap_transactions) :
        swap_transactions[i].status = "pending"
            => \E w \in Procs : InFlight(w, "swap_currency") /\ loc[w].swapid = i

\* C7: a completed SwapTransaction references two ledger legs and both legs
\* have status completed.
C7_CompletedSwapHasCompletedLegs ==
    \A i \in 1..Len(swap_transactions) :
        LET s == swap_transactions[i] IN
        s.status = "completed"
            => /\ s.from_transaction_id # NoId
               /\ s.to_transaction_id # NoId
               /\ transactions[s.from_transaction_id].status = "completed"
               /\ transactions[s.to_transaction_id].status = "completed"

\* ----------------------------------------------------- settlement claims
Terminal(status) == status \in {"confirmed", "failed"}

\* C8: the status of a BlockchainTransaction only moves pending -> confirmed
\* or pending -> failed; a record that is confirmed or failed keeps that
\* status in every step of process_withdrawal, process_deposit, mint_exons,
\* burn_exons and monitor_pending_transactions.
C8_TerminalStatusIsFinal ==
    [][\A i \in 1..Len(blockchain_transactions) :
          /\ Terminal(blockchain_transactions[i].status) =>
                 blockchain_transactions'[i].status = blockchain_transactions[i].status
          /\ blockchain_transactions'[i].status # blockchain_transactions[i].status =>
                 /\ blockchain_transactions[i].status = "pending"
                 /\ Terminal(blockchain_transactions'[i].status)]_vars

\* a monitor task is about to write the status of a row that another pass has
\* already made terminal
C8_Witness ==
    \E m \in Monitors :
        /\ mpc[m] = "update"
        /\ Terminal(blockchain_transactions[Head(mloc[m].list)].status)

\* C9 as stated: after two passes of monitor_pending_transactions in
\* succession, with the on-chain state after the second the same as after the
\* first, every record is as the first pass left it, and the second pass has
\* written no row that was already confirmed or failed.
C9_SecondPassChangesNothing ==
    (recon.phase = "done" /\ recon.chain1 = recon.chain2) =>
        (blockchain_transactions = recon.rows1 /\ recon.rewrites = 0)

\* C9, amended: if moreover the first pass returned Ok with every status query
\* answered, and the on-chain state has not changed since the first pass
\* started, then every record after the second pass is as the first pass left
\* it, and the second pass has written no terminal row.
C9_SettledPassIsIdempotent ==
    (recon.phase = "done" /\ recon.chain0 = recon.chain2 /\ recon.clean1) =>
        (blockchain_transactions = recon.rows1 /\ recon.rewrites = 0)

\* two passes in succession over an unchanged chain; the first wrote a
\* terminal status and left another row pending
C9_Witness ==
    /\ recon.phase = "done" /\ recon.chain0 = recon.chain2 /\ recon.clean1
    /\ \E i \in 1..Len(blockchain_transactions) :
           /\ Terminal(blockchain_transactions[i].status)
           /\ blockchain_transactions[i].transaction_type # "deposit"
    /\ \E i \in 1..Len(blockchain_transactions) :
           blockchain_transactions[i].status = "pending"

\* the step ends the visit of task m to the row at the head of its list
VisitEnds(m) ==
    /\ mpc[m] \in {"check", "update"}
    /\ mpc'[m] = "idle" \/ mloc'[m].list = Tail(mloc[m].list)

\* C10: a pending record visited by monitor_pending_transactions is marked
\* failed when its hash is no signature, confirmed when the chain reports
\* success for it and failed when the chain reports failure (the status query
\* being answered and the write being stored).
C10_MonitorMarksByOutcome ==
    [][\A m \in Monitors :
          (VisitEnds(m) /\ faults' = faults) =>
              LET id == Head(mloc[m].list)
                  h == blockchain_transactions[id].transaction_hash
                  obs == IF mpc[m] = "update" THEN mloc[m].obs
                         ELSE get_signature_status(chain, h)
                  after == blockchain_transactions'[id].status
              IN  /\ ~parses(h) => after = "failed"
                  /\ (parses(h) /\ obs = "success") => after = "confirmed"
                  /\ (parses(h) /\ obs = "failure") => after = "failed"]_vars

\* the monitor has marked a record with an unparsable hash failed and a
\* record whose transaction succeeded on chain confirmed
C10_Witness ==
    \E i, j \in 1..Len(blockchain_transactions) :
        /\ ~parses(blockchain_transactions[i].transaction_hash)
        /\ blockchain_transactions[i].status = "failed"
        /\ blockchain_transactions[j].transaction_type # "deposit"
        /\ parses(blockchain_transactions[j].transaction_hash)
        /\ chain[blockchain_transactions[j].transaction_hash] = "success"
        /\ blockchain_transactions[j].status = "confirmed"

\* the step is one of task m
StepOf(m) == mpc'[m] # mpc[m] \/ mloc'[m] # mloc[m]

\* C11: when the chain has no outcome yet for the pending record in hand, or
\* the status query fails with a client error, monitor_pending_transactions
\* writes nothing (the record stays pending and is otherwise unchanged) and
\* goes on to the next record it fetched, returning Ok after the last.
C11_UnresolvedStaysPending ==
    [][\A m \in Monitors :
          LET id == Head(mloc[m].list)
              h == blockchain_transactions[id].transaction_hash
          IN  (/\ mpc[m] = "check"
               /\ StepOf(m)
               /\ parses(h)
               /\ faults' # faults \/ get_signature_status(chain, h) = "none")
              => /\ blockchain_transactions' = blockchain_transactions
                 /\ IF Len(mloc[m].list) > 1
                    THEN /\ mpc'[m] = "check"
                         /\ mloc'[m].list = Tail(mloc[m].list)
                    ELSE mpc'[m] = "idle"]_vars

\* a task has passed over the first record, which is still pending, and is at
\* the second record of the same pass
C11_Witness ==
    \E m \in Monitors :
        /\ mpc[m] = "check"
        /\ mloc[m].list = <<2>>
        /\ blockchain_transactions[1].status = "pending"
        /\ parses(blockchain_transactions[1].transaction_hash)

\* C12: with two passes of monitor_pending_transactions running at once, and
\* handlers recording new rows meanwhile, a record receives a terminal status
\* write at most once: every write a pass makes lands on a record that is
\* still pending, never on one the other pass has already settled.
C12_AtMostOneTerminalWrite ==
    [][\A m \in Monitors :
          (mpc[m] = "update" /\ StepOf(m) /\ faults' = faults)
          => blockchain_transactions[Head(mloc[m].list)].status = "pending"]_vars

\* ------------------------------------------------ ledger status claims
LedgerTerminal(status) == status \in {"completed", "failed", "cancelled"}

\* C13: the status of a LedgerTransaction only moves from pending to one
\* terminal state (completed, failed or cancelled); once it is terminal no
\* operation, update_transaction_status included, changes it again.
C13_LedgerStatusIsFinal ==
    [][\A i \in 1..Len(transactions) :
          LedgerTerminal(transactions[i].status) =>
              transactions'[i].status = transactions[i].status]_vars

\* C14: when transfer_currency of a blockchain-backed currency fails at its
\* on-chain leg, or finds no chain client configured, no wallet balance has
\* changed, no tax has been credited, and the primary LedgerTransaction it
\* created has status failed.
C14_ChainLegFailureMarksFailed ==
    \A w \in Procs :
        (/\ Returned(w, "transfer_currency")
         /\ is_blockchain(loc[w].cur)
         /\ loc[w].at = "transfer_create_transaction"
         /\ result[w].status = "err")
        => /\ delta[w] = ZeroDelta
           /\ transactions[loc[w].txid].status = "failed"

\* C15: transfer_currency whose sender holds less than amount + tax fails
\* with InsufficientFunds carrying required = amount + tax and available =
\* the sender's balance; no wallet balance changes and nothing of the
\* transfer is applied.
C15_InsufficientFundsRejected ==
    [][\A w \in Procs :
          LET l == loc[w]
              total == l.amount + calculate_tax(tax_settings, l.amount, l.cur, l.guild)
          IN  (/\ pc[w] = "transfer_check_funds"
               /\ pc'[w] # pc[w]
               /\ l.player \in DOMAIN wallets
               /\ wallets[l.player][l.cur] < total)
              => /\ pc'[w] = "done"
                 /\ result'[w].status = "err"
                 /\ result'[w].err = "InsufficientFunds"
                 /\ result'[w].required = total
                 /\ result'[w].available = wallets[l.player][l.cur]
                 /\ wallets' = wallets
                 /\ transactions' = transactions
                 /\ delta'[w] = ZeroDelta]_vars

\* a transfer was refused although its sender could pay the amount without
\* the tax
C15_Witness ==
    \E w \in Procs :
        /\ Returned(w, "transfer_currency")
        /\ result[w].err = "InsufficientFunds"
        /\ loc[w].at = "transfer_check_funds"
        /\ loc[w].tax > 0
        /\ result[w].available >= loc[w].amount
        /\ result[w].required = loc[w].amount + loc[w].tax
        /\ delta[w] = ZeroDelta

\* C16: remove_currency of amount a on a wallet whose balance b is at least a
\* succeeds and leaves the balance at b - a (so that a following debit of more
\* than b - a is refused with available = b - a).
C16_DebitLowersBalance ==
    [][\A w \in Procs :
          LET l == loc[w] IN
          (/\ pc[w] = "remove_currency_update"
           /\ pc'[w] # pc[w]
           /\ l.op = "remove_currency")
          => /\ result'[w].status = "ok"
             /\ wallets'[l.who][l.wcur] = l.read - l.wamt]_vars

\* ------------------------------------------------------ numerical claims
\* C17: calculate_tax returns exactly amount * (base percent + guild percent
\* if the guild flag is set, else 0) / 100, which lies between 0 and amount *
\* (base% + guild%) / 100; with no tax settings row for the currency it
\* returns 0.
C17_TaxIsExact ==
    call.fn = "calculate_tax" =>
        LET stored == call.currency \in DOMAIN tax_settings
            base == IF stored THEN tax_settings[call.currency].tax_percentage ELSE DecZero
            guild == IF stored THEN tax_settings[call.currency].guild_tax_percentage
                     ELSE DecZero
            percent == IF call.is_guild THEN DecAdd(base, guild) ELSE base
            \* amount * percent / 100, as mantissa and scale
            exact == Dec(call.amount.m * percent.m, call.amount.e + percent.e + 2)
            most == Dec(call.amount.m * DecAdd(base, guild).m,
                        call.amount.e + DecAdd(base, guild).e + 2)
        IN  /\ DecEq(call.ret, exact)
            /\ DecLe(DecZero, call.ret)
            /\ DecLe(call.ret, most)
            /\ ~stored => DecEq(call.ret, DecZero)

\* 100 at 13% without the guild flag is taxed 13
C17_Witness ==
    /\ call.fn = "calculate_tax"
    /\ call.amount = Dec(Hundred, 0)
    /\ call.currency \in DOMAIN tax_settings
    /\ tax_settings[call.currency].tax_percentage = Dec(13, 0)
    /\ ~call.is_guild
    /\ DecEq(call.ret, Dec(13, 0))

\* ---------------------------------------------------------- quote claims
\* swap_currency of worker w returned from its quote, before any statement
QuoteRejected(w) ==
    Returned(w, "swap_currency") /\ loc[w].at \in {"idle", "done"}

\* the error a rejected quote must carry for the stored rates, "none" if the
\* quote must be given: no row, row disabled, below min_amount, above
\* max_amount, in this order
QuoteError(from, to, from_amount) ==
    LET rows == rows_for(exchange_rates, from, to) IN
    IF rows = {} THEN "ExchangeRateNotFound"
    ELSE IF \E r \in rows : ~r.is_active THEN "ExchangeRateInactive"
    ELSE IF \E r \in rows : DecLt(from_amount, r.min_amount) THEN "AmountTooSmall"
    ELSE IF \E r \in rows : DecLt(r.max_amount, from_amount) THEN "AmountTooLarge"
    ELSE "none"

\* C18 as stated: the quote fails with ExchangeRateNotFound when the ordered
\* pair has no row, ExchangeRateInactive when the row is disabled,
\* AmountTooSmall when from_amount < min_amount, AmountTooLarge when
\* from_amount > max_amount, and is given only for an active rate with
\* min_amount <= from_amount <= max_amount; swap_currency changes no balance
\* when the quote is rejected.
C18_QuoteRejections ==
    \A w \in Procs :
        loc[w].op = "swap_currency" /\ pc[w] # "idle" =>
            LET l == loc[w]
                e == QuoteError(l.cur, l.cur2, FromHundredths(l.amount))
            IN  /\ e # "none" => QuoteRejected(w) /\ result[w].err = e
                /\ QuoteRejected(w) => delta[w] = ZeroDelta

\* C18 for the amounts the quote looks up a rate for: with from_amount > 0
\* the quote fails with ExchangeRateNotFound, ExchangeRateInactive,
\* AmountTooSmall or AmountTooLarge as above and is given otherwise; with
\* from_amount <= 0 it fails with a System error whatever the rates are; a
\* rejected quote leaves every balance as it was.
C18_PositiveQuoteRejections ==
    \A w \in Procs :
        loc[w].op = "swap_currency" /\ pc[w] # "idle" =>
            LET l == loc[w]
                e == QuoteError(l.cur, l.cur2, FromHundredths(l.amount))
            IN  /\ l.amount > 0 /\ e # "none" => QuoteRejected(w) /\ result[w].err = e
                /\ l.amount > 0 /\ e = "none" => ~QuoteRejected(w)
                /\ l.amount <= 0 => QuoteRejected(w) /\ result[w].err = "System"
                /\ QuoteRejected(w) => delta[w] = ZeroDelta

\* one swap was refused as too small and another as too large
C18_Witness ==
    \E w, v \in Procs :
        /\ QuoteRejected(w) /\ result[w].err = "AmountTooSmall"
        /\ QuoteRejected(v) /\ result[v].err = "AmountTooLarge"

\* C19: every accepted quote has fee_amount = from_amount * fee_percentage /
\* 100 and to_amount = (from_amount - fee_amount) * rate, and returns the
\* rate stored for the ordered pair.
C19_QuoteArithmetic ==
    (call.fn = "calculate_swap_amount" /\ call.ret.err = "none") =>
        \A r \in rows_for(exchange_rates, call.from, call.to) :
        /\ DecEq(DecMul(call.ret.fee_amount, DecHundred),
                 DecMul(call.from_amount, r.fee_percentage))
        /\ DecEq(call.ret.to_amount,
                 DecMul(DecSub(call.from_amount, call.ret.fee_amount), r.rate))
        /\ call.ret.rate = r.rate

\* rate 100 and fee 13%: 10 is quoted with fee 1.3 and to_amount 870
C19_Witness ==
    /\ call.fn = "calculate_swap_amount"
    /\ call.ret.err = "none"
    /\ call.from_amount = Dec(10, 0)
    /\ \E r \in rows_for(exchange_rates, call.from, call.to) :
          r.rate = Dec(Hundred, 0) /\ r.fee_percentage = Dec(13, 0)
    /\ DecEq(call.ret.fee_amount, Dec(13, 1))
    /\ DecEq(call.ret.to_amount, Dec(870, 0))

\* ----------------------------------------------------- rate table claims
\* C20: after any sequence of update_exchange_rate and update_market_rates
\* calls the table has at most one row per ordered pair, and every row has
\* rate > 0, 0 < min_amount < max_amount and 0 <= fee_percentage <= 100; a
\* call of update_exchange_rate with values outside these is rejected before
\* it runs any statement, so it leaves the table unchanged.
C20_RateTableValid ==
    /\ \A r1, r2 \in exchange_rates :
          (r1.from_currency = r2.from_currency /\ r1.to_currency = r2.to_currency)
              => r1 = r2
    /\ \A r \in exchange_rates :
          /\ r.rate.m > 0
          /\ r.min_amount.m > 0
          /\ DecLt(r.min_amount, r.max_amount)
          /\ r.fee_percentage.m >= 0
          /\ DecLe(r.fee_percentage, Dec(Hundred, 0))
    /\ \A w \in Procs :
          LET row == loc[w].row IN
          (/\ loc[w].op = "update_exchange_rate"
           /\ pc[w] # "idle"
           /\ ~(/\ row.rate.m > 0
                /\ row.min_amount.m > 0
                /\ DecLt(row.min_amount, row.max_amount)
                /\ row.fee_percentage.m >= 0
                /\ DecLe(row.fee_percentage, Dec(Hundred, 0))))
          => /\ pc[w] = "done"
             /\ result[w].status = "err"
             /\ loc[w].at \in {"idle", "done"}

\* a pair without a row has received one, and a call with a fee above 100
\* was refused
C20_Witness ==
    /\ rows_for(exchange_rates, "Solana", "Exons") # {}
    /\ \E w \in Procs :
          /\ Returned(w, "update_exchange_rate")
          /\ result[w].status = "err"
          /\ DecLt(Dec(Hundred, 0), loc[w].row.fee_percentage)

\* ------------------------------------------------------ wallet link claims
\* C21: in every reachable state, concurrent connect_wallet calls of
\* different players for one address included, no external address is linked
\* to more than one player.
C21_AddressLinkedOnce ==
    \A p \in DOMAIN blockchain_wallets : \A q \in DOMAIN blockchain_wallets :
        blockchain_wallets[p].solana_address = blockchain_wallets[q].solana_address
            => p = q

\* worker w returns Ok from the last statement of the wallet call fn
WalletWritten(w, fn) ==
    /\ call[w].fn = fn
    /\ pc[w] # "idle"
    /\ pc'[w] = "idle"
    /\ result'[w].status = "ok"
    /\ call'[w].wrote

\* the nonces the table holds and the nonces the calls in flight have generated
KnownNonces(w) ==
    {blockchain_wallets[p].verification_nonce : p \in DOMAIN blockchain_wallets}
        \cup {call[v].nonce : v \in Procs \ {w}}

\* C22: every successful connect_wallet call, a re-link by a player whose
\* wallet was verified included, leaves the player's wallet unverified, with
\* last_verified_at cleared and a nonce that was generated by this call and
\* differs from every nonce stored or generated before.
C22_ConnectResetsVerification ==
    [][\A w \in Procs :
          WalletWritten(w, "connect_wallet") =>
              LET row == blockchain_wallets'[call[w].player]
              IN  /\ ~row.is_verified
                  /\ row.last_verified_at = NoTime
                  /\ row.solana_address = call[w].address
                  /\ row.verification_nonce = call[w].nonce
                  /\ row.verification_nonce # NoNonce
                  /\ row.verification_nonce \notin KnownNonces(w)]_vars

\* p1, whose wallet was verified, has linked its address again
C22_Witness ==
    \E w \in Procs :
        /\ pc[w] = "idle"
        /\ call[w].fn = "connect_wallet"
        /\ call[w].player = "p1"
        /\ call[w].wrote
        /\ result[w].status = "ok"
        /\ ~blockchain_wallets["p1"].is_verified
        /\ InitBlockchainWallets["p1"].is_verified

\* signature is a signature over the outstanding nonce of the wallet, made
\* by the address the wallet links
valid_signature(signature, wallet) ==
    /\ wallet.verification_nonce # NoNonce
    /\ signature = Sign(wallet.solana_address, wallet.verification_nonce)

\* the player has a verified wallet
Verified(rows, player) == player \in DOMAIN rows /\ rows[player].is_verified

\* C23: a wallet becomes verified only by a verify_wallet call whose
\* signature is a valid signature over the wallet's outstanding nonce by the
\* linked address; a verify_wallet call with an invalid signature for an
\* unverified wallet fails with Unauthorized and leaves the row as it was.
C23_VerifiedOnlyBySignature ==
    [][/\ \A p \in Players :
             ~Verified(blockchain_wallets, p) /\ Verified(blockchain_wallets', p)
                 => \E w \in Procs :
                       /\ WalletWritten(w, "verify_wallet")
                       /\ call[w].player = p
                       /\ valid_signature(call[w].signature, blockchain_wallets[p])
       /\ \A w \in Procs :
             /\ call[w].fn = "verify_wallet"
             /\ pc[w] = "verify_get"
             /\ pc'[w] # "verify_get"
             /\ faults' = faults
             /\ call[w].player \in DOMAIN blockchain_wallets
             /\ ~blockchain_wallets[call[w].player].is_verified
             /\ ~valid_signature(call[w].signature,
                                 blockchain_wallets[call[w].player])
             => /\ result'[w] = Err("Unauthorized")
                /\ blockchain_wallets' = blockchain_wallets]_vars

\* C24: in every reachable state a wallet row holds a verification nonce if
\* and only if it is unverified.
C24_NonceIffUnverified ==
    \A p \in DOMAIN blockchain_wallets :
        (blockchain_wallets[p].verification_nonce # NoNonce)
            <=> ~blockchain_wallets[p].is_verified

\* verify_wallet has verified p2 and cleared its nonce, and connect_wallet
\* has given p3 an unverified wallet with a nonce
C24_Witness ==
    /\ \E w \in Procs :
          /\ call[w].fn = "verify_wallet" /\ call[w].player = "p2" /\ call[w].wrote
    /\ \E w \in Procs :
          /\ call[w].fn = "connect_wallet" /\ call[w].player = "p3" /\ call[w].wrote
    /\ blockchain_wallets["p2"].is_verified
    /\ "p3" \in DOMAIN blockchain_wallets
    /\ ~blockchain_wallets["p3"].is_verified

\* C25: verify_wallet for a wallet that is already verified returns Ok and
\* leaves the wallet rows as they were, whatever signature it is given; a
\* second verify_wallet call therefore changes nothing the first one set.
C25_VerifyIdempotent ==
    [][\A w \in Procs :
          /\ call[w].fn = "verify_wallet"
          /\ pc[w] = "verify_get"
          /\ pc'[w] # "verify_get"
          /\ faults' = faults
          /\ Verified(blockchain_wallets, call[w].player)
          => /\ pc'[w] = "idle"
             /\ result'[w].status = "ok"
             /\ blockchain_wallets' = blockchain_wallets]_vars

\* p2 was verified by one verify_wallet call, and a second call for p2,
\* given a signature nobody made, has returned Ok without writing
C25_Witness ==
    \E w \in Procs : \E v \in Procs \ {w} :
        /\ call[w].fn = "verify_wallet" /\ call[w].player = "p2" /\ call[w].wrote
        /\ call[v].fn = "verify_wallet" /\ call[v].player = "p2" /\ ~call[v].wrote
        /\ call[v].signature = BadSignature
        /\ pc[v] = "idle"
        /\ result[v].status = "ok"
        /\ blockchain_wallets["p2"].is_verified

\* ---------------------------------------------------- handler claims
\* the last call was one of the three handlers that submit to the chain
Submitting == call.fn \in {"process_withdrawal", "mint_exons", "burn_exons"}

\* the last call returned an error without submitting or storing anything
NothingDone ==
    /\ call.res # "ok"
    /\ submitted = call.submitted
    /\ blockchain_transactions = call.rows
    /\ \A n \in 1..(MaxRows + MaxFaults) :
          n > call.submitted => chain[Hash("service", n)] = "unknown"

C27_FailedSubmissionStoresNothing ==
    (call.fn = "process_withdrawal" /\ call.res = "SolanaClient")
        => blockchain_transactions = call.rows

\* with one record stored already, a withdrawal of Solana for p1 passed every
\* test and failed in the chain client
C27_Witness ==
    /\ call.fn = "process_withdrawal"
    /\ call.player = "p1"
    /\ call.currency = "Solana"
    /\ call.amount > 0
    /\ treasury_wallet_keypair
    /\ call.res = "SolanaClient"
    /\ Len(call.rows) = 1
    /\ Len(blockchain_transactions) = 1

\* the operation kind a handler records
KindOf(fn) ==
    IF fn = "process_withdrawal" THEN "withdrawal"
    ELSE IF fn = "mint_exons" THEN "mint"
    ELSE IF fn = "burn_exons" THEN "burn"
    ELSE "deposit"

\* C28: a successful process_withdrawal, mint_exons or burn_exons call adds
\* exactly one BlockchainTransaction to the table: pending, without
\* confirmation timestamp, with the player, currency and amount of the call,
\* the operation kind of the handler, and the signature the submission
\* returned.
C28_SuccessStoresOnePending ==
    (Submitting /\ call.res = "ok") =>
        /\ Len(blockchain_transactions) = Len(call.rows) + 1
        /\ SubSeq(blockchain_transactions, 1, Len(call.rows)) = call.rows
        /\ submitted > call.submitted
        /\ chain[Hash("service", submitted)] = "success"
        /\ LET row == blockchain_transactions[Len(blockchain_transactions)]
           IN  /\ row.status = "pending"
               /\ row.confirmed_at = NoTime
               /\ row.player_id = call.player
               /\ row.currency_type = call.currency
               /\ row.amount = call.amount
               /\ row.transaction_type = KindOf(call.fn)
               /\ row.transaction_hash = Hash("service", submitted)

\* a mint for p1 succeeded after the recipient's token account was created:
\* two transactions were submitted and the second one is recorded
C28_Witness ==
    /\ call.fn = "mint_exons"
    /\ call.res = "ok"
    /\ submitted = call.submitted + 2
    /\ Len(blockchain_transactions) = Len(call.rows) + 1
    /\ blockchain_transactions[Len(blockchain_transactions)].transaction_type = "mint"

OnChainTransfer(h) == [to |-> "treasury", currency |-> "Solana", amount |-> Hundred]

\* C30: process_deposit stores a confirmed record only if the referenced
\* transaction is a successful on-chain transfer to the treasury whose amount
\* and currency are those of the reported deposit; otherwise the call fails
\* and stores nothing.
C30_DepositMatchesTransfer ==
    call.fn = "process_deposit" =>
        LET matching ==
                /\ parses(call.hash)
                /\ chain[call.hash] = "success"
                /\ OnChainTransfer(call.hash).to = "treasury"
                /\ OnChainTransfer(call.hash).currency = call.currency
                /\ OnChainTransfer(call.hash).amount = call.amount
        IN  /\ call.res = "ok" => matching
            /\ ~matching => call.res # "ok" /\ blockchain_transactions = call.rows

\* ------------------------------------------------------- last claims
\* C31: in every reachable state no two BlockchainTransaction records carry
\* the same external transaction hash; process_deposit called twice with one
\* hash leaves at most one record for it.
C31_HashUnique ==
    \A i \in 1..Len(blockchain_transactions) :
        \A j \in 1..Len(blockchain_transactions) :
            blockchain_transactions[i].transaction_hash
                = blockchain_transactions[j].transaction_hash => i = j


\* worker w's call of `op` has returned Ok
Succeeded(w, op) ==
    pc[w] = "done" /\ loc[w].op = op /\ result[w].status = "ok"

\* the records that carry `id`
RecordsOf(id) == { i \in DOMAIN transactions : transactions[i].id = id }

HasRows(id) ==
    \/ \E r \in player_tables.players : r.id = id
    \/ id \in player_tables.player_profiles
    \/ id \in player_tables.player_stats
    \/ id \in player_tables.inventories
    \/ player_tables.wallets[id] > 0

\* C33: register_player is all-or-nothing: when it returns an error, whatever
\* step failed, none of the player, profile, stats, inventory or wallet rows
\* of that player exist.
C33_RegisterAllOrNothing ==
    \A w \in Procs :
        (pc[w] = "idle" /\ call[w].fn = "register_player"
            /\ result[w].status = "err" /\ call[w].player # NoPlayer)
                => ~HasRows(call[w].player)


\* the tax records that refer to the primary record `id`
TaxRecordsOf(id) ==
    { i \in DOMAIN transactions :
         transactions[i].transaction_type = "tax" /\ transactions[i].reference_id = id }

\* C34: every completed transfer_currency call has produced exactly one
\* primary LedgerTransaction of kind transfer and, if and only if tax > 0,
\* exactly one secondary LedgerTransaction of kind tax whose reference is the
\* primary's id and whose amount is the tax debited from the sender.
C34_TransferRecords ==
    \A w \in Procs :
        Succeeded(w, "transfer_currency") =>
            LET l == loc[w] IN
            /\ Cardinality(RecordsOf(result[w].id)) = 1
            /\ \A i \in RecordsOf(result[w].id) :
                  /\ transactions[i].transaction_type = "transfer"
                  /\ transactions[i].from_player_id = l.player
                  /\ transactions[i].to_player_id = l.to
                  /\ transactions[i].amount = l.amount
            /\ Cardinality(TaxRecordsOf(result[w].id)) = IF l.tax > 0 THEN 1 ELSE 0
            /\ \A i \in TaxRecordsOf(result[w].id) :
                  /\ transactions[i].amount = l.total - l.amount
                  /\ transactions[i].from_player_id = l.player


\* the amount worker w's call was given
AmountOf(l) ==
    IF l.op \in {"add_currency", "remove_currency"} THEN l.wamt ELSE l.amount

\* worker w has taken the step
Stepped(w) == pc'[w] # pc[w] \/ loc'[w] # loc[w] \/ result'[w] # result[w]

\* C35: add_currency, remove_currency, transfer_currency, reward_currency and
\* swap_currency reject an amount <= 0 with an error before any mutation: no
\* step of such a call changes a wallet balance or creates a LedgerTransaction
\* or SwapTransaction, and the call ends in an error.
C35_NonPositiveRejected ==
    [][\A w \in Procs :
          (Stepped(w) /\ AmountOf(loc'[w]) <= 0
              /\ loc'[w].op \in {"add_currency", "remove_currency", "transfer_currency",
                                 "reward_currency", "swap_currency"})
          => /\ wallets' = wallets
             /\ transactions' = transactions
             /\ swap_transactions' = swap_transactions
             /\ pc'[w] \in {"done", "add_currency_get_wallet",
                            "remove_currency_get_wallet"}
             /\ pc'[w] = "done" => result'[w].status = "err" /\ delta'[w] = ZeroDelta]_vars

\* a reward of 0 and a swap of 0 have both been refused
C35_Witness ==
    \E w, v \in Procs :
        /\ pc[w] = "done" /\ loc[w].op = "reward_currency" /\ loc[w].amount = 0
        /\ result[w].err = "InvalidAmount"
        /\ pc[v] = "done" /\ loc[v].op = "swap_currency" /\ loc[v].amount = 0
        /\ result[v].err = "System"


\* the positions of transfer_currency behind its two balance updates:
\* remove_currency(from, amount + tax) and add_currency(to, amount) have both
\* returned Ok
BehindUpdates(at, l) ==
    \/ at \in {"transfer_tax_record", "transfer_finish"}
    \/ at \in {"add_currency_get_wallet", "add_currency_update"}
          /\ l.ret = "transfer_tax_record"

\* C36: a LedgerTransaction of kind transfer is completed only if the debit of
\* amount + tax from the sender and the credit of amount to the recipient have
\* both been applied; for a blockchain-backed currency the record is not
\* marked completed before the balance updates have succeeded.
C36_CompletedAfterUpdates ==
    \A w \in Procs :
        (loc[w].op = "transfer_currency" /\ loc[w].txid # NoId
            /\ transactions[loc[w].txid].status = "completed")
        => BehindUpdates(IF pc[w] = "done" THEN loc[w].at ELSE pc[w], loc[w])


\* C38: when transfer_currency has completed for a currency whose on-chain
\* leg returned a settlement signature, the primary LedgerTransaction is
\* completed and its blockchain_tx_hash is that signature: the final status
\* update does not run after the blockchain branch and clears no hash.
C38_SignatureKept ==
    \A w \in Procs :
        (Succeeded(w, "transfer_currency") /\ loc[w].cur = "Solana")
        => /\ transactions[result[w].id].status = "completed"
           /\ transactions[result[w].id].blockchain_tx_hash = MockSignature


\* a create_wallet call for `player` has returned Ok
WalletCreatedFor(player) ==
    \E w \in Procs :
        /\ pc[w] = "idle" /\ call[w].fn = "create_wallet"
        /\ call[w].player = player /\ result[w].status = "ok"

\* C39: after any sequence of create_wallet calls, concurrent or not, there
\* is exactly one wallet for each player it was called for; a wallet it
\* created has its three balances 0, and a call for a player who had a wallet
\* returns that wallet with its balances as they were.
C39_OneWalletPerPlayer ==
    \A player \in CreateWalletInputs :
        WalletCreatedFor(player) =>
            /\ player_tables.wallets[player] = 1
            /\ player \in DOMAIN wallets
            /\ wallets[player] = IF player \in DOMAIN InitWallets
                                 THEN InitWallets[player] ELSE NewWallet


\* the last call sent its withdrawal, mint or burn instruction and the
\* cluster confirmed it: signatures were returned to the call, and its own
\* instruction, the last one it sends, did not fail in the chain client
InstructionAccepted ==
    /\ call.fn \in {"process_withdrawal", "mint_exons", "burn_exons"}
    /\ submitted > call.submitted
    /\ call.res # "SolanaClient"

\* C40: every withdrawal, mint or burn instruction the chain accepted during
\* process_withdrawal, mint_exons or burn_exons has a BlockchainTransaction
\* record carrying its signature, also when the insertion of the record
\* failed after the submission.
C40_AcceptedIsRecorded ==
    InstructionAccepted =>
        \E i \in DOMAIN blockchain_transactions :
            /\ blockchain_transactions[i].transaction_hash = Hash("service", submitted)
            /\ blockchain_transactions[i].transaction_type = KindOf(call.fn)


\* the cluster reports a final outcome for the signature of pending row i
Resolvable(i) ==
    /\ i \in DOMAIN blockchain_transactions
    /\ blockchain_transactions[i].status = "pending"
    /\ parses(blockchain_transactions[i].transaction_hash)
    /\ get_signature_status(chain, blockchain_transactions[i].transaction_hash)
          \in {"success", "failure"}

Resolved(i) ==
    /\ i \in DOMAIN blockchain_transactions
    /\ blockchain_transactions[i].status \in {"confirmed", "failed"}

\* C37: with monitor_pending_transactions invoked again and again, a pending
\* BlockchainTransaction for whose signature the cluster reports a final
\* success or failure eventually is confirmed or failed; a storage or
\* status-query error in one pass leaves it to a later pass.
C37_PendingIsResolved ==
    \A i \in 1..MaxRows : Resolvable(i) ~> Resolved(i)

\* a statement has failed in this run, and the one row of the table, whose
\* transaction the cluster reports as failed, has been marked failed by a pass
C37_Witness ==
    \E i \in DOMAIN blockchain_transactions :
        /\ blockchain_transactions[i].status = "failed"
        /\ parses(blockchain_transactions[i].transaction_hash)
        /\ get_signature_status(chain, blockchain_transactions[i].transaction_hash)
              = "failure"
        /\ faults > 0
        /\ Len(blockchain_transactions) = 1

============================================================================
